---- MODULE Spec2Model ----
(***************************************************************************)
(* Model of LKService: the weekly overtime engine                          *)
(* (app/services/overtime_calculator.py, app/services/time_calculator.py), *)
(* the Danlon OAuth token broker (app/services/danlon_oauth.py,            *)
(* app/routers/danlon_oauth.py, app/routers/danlon.py), the call-out       *)
(* detector (app/services/call_out_detector.py), the sync to Danlon        *)
(* (sync_to_danlon, app/services/danlon_api.py), absence marking and the   *)
(* preview cache (app/routers/upload.py, app/routers/api_fetch.py), the   *)
(* pending sessions of the OAuth flow, the redirect_uri of a connection    *)
(* flow, the date filler (app/services/date_filler.py), the time splitters,*)
(* the processing pipeline of a preview, the grouping by week around the   *)
(* turn of a year, the page-fetch loop of the API ingest, the session ids  *)
(* the preview endpoints return, the export with call-out selections and   *)
(* the legacy auth service (app/services/danlon_auth.py).  Each part has   *)
(* its own variables and its own specification; all start from the one     *)
(* Init.                                                                   *)
(*                                                                         *)
(* Clock times and durations are whole minutes.  Hours are Python floats   *)
(* (IEEE doubles) in the source and are modelled bit-exactly: an hour      *)
(* value is a pair <<u, r>> that stands for the double                     *)
(*     (floor(u * 2^50 / 5) + r) * 2^-50,                                  *)
(* u being the nominal value in fifths of an hour (12 minutes) and r the   *)
(* deviation from it in units of 2^-50 h.  Every duration of the model is  *)
(* a multiple of 12 minutes that is a whole number of hours or at least    *)
(* 4 h, so every double that occurs is a multiple of 2^-50 h.              *)
(***************************************************************************)
EXTENDS Integers, Sequences, FiniteSets, TLC

VARIABLES
    \* ---- overtime engine: the loop of calculate_weekly_overtime ----
    ot_pc,                 \* "loop" while records are processed, "done" after the summary
    day,                   \* ISO weekday (1..7) of the record processed last, 0 before the first
    weekly_total,          \* overtime_calculator.py:397
    weekly_norm_used,      \* overtime_calculator.py:398
    weekly_ot_hours_used,  \* overtime_calculator.py:399
    weekly_breakdown,      \* overtime_calculator.py:400
    last,                  \* the record processed last and what categorize_day_overtime returned
    summary,               \* the WeeklySummary emitted, once ot_pc = "done"
    \* ---- token broker: DanlonOAuthService and the handlers that use it ----
    now,                   \* datetime.utcnow(), in minutes
    rows,                  \* the danlon_tokens rows of one (user_id, company_id), in insert order
    idp,                   \* the identity provider: tokens issued, refresh tokens live and rotated out
    hs,                    \* per request handler: its position and its locals
    writer,                \* the handler whose store_tokens committed last ("none" before any)
    nops,                  \* requests started so far
    \* ---- call-out detector: detect_call_out_eligibility on one record ----
    co_pc,                 \* "build" while the record's entries arrive, "done" after detection
    co_entries,            \* record.entries, in file order
    co_eligible,           \* what detect_call_out_eligibility returned
    \* ---- sync_to_danlon: one run of the handler ----
    sy_pc,                 \* "idle", "resolved" (outputs and company found), "loop" (mappings and employees loaded), "done", "failed" (HTTPException raised)
    sy_status,             \* status code of the response, 0 while the handler runs
    sy_session_id,         \* the session_id of the call, "" before it
    sy_calls,              \* what the call has read from the token store and sent upstream, in order
    sy_cfg,                \* the employee list and mapping rows loaded, and the lookups built from them
    sy_n,                  \* rows of cached outputs taken so far
    sy_last,               \* the row taken last and the employee id resolved for it
    payparts,              \* danlon_oauth.py:1078
    skipped,               \* danlon_oauth.py:1079
    unmatched_workers,     \* danlon_oauth.py:1080
    gql,                   \* the payParts list literal of the createPayParts mutation
    \* ---- one preview session and the mark-absence calls on it ----
    ab_records,            \* preview_cache[session_id]["records"], one DailyRecord per date or NoDailyRecord
    ab_sel,                \* the absence_selections of the last mark-absence call
    ab_result,             \* how the last handler ended
    \* ---- the preview cache and the wall clock ----
    preview_cache,         \* session id -> the "timestamp" of its entry, in hours; NoEntry when absent
    clock,                 \* datetime.now(), in hours
    \* ---- pending sessions of the OAuth flow ----
    pending_sessions,      \* the rows of danlon_pending_sessions
    ps_hs,                 \* per request of the flow: operation, position, what it holds
    ps_now,                \* wall-clock time, in units of five minutes
    ps_started,            \* requests started so far
    ps_stored,             \* whether an OAuthToken row of the user is stored
    ps_reported,           \* the last answer of GET /danlon/pending
    \* ---- the redirect_uri of one connection flow, from /danlon/connect to the code exchange ----
    rd_pc,                 \* "idle", "authorize" (browser sent to the provider), "callback", "exchanged", "failed"
    rd_service,            \* which router serves the flow: "oauth" (danlon_oauth.py) or "legacy" (danlon.py)
    rd_redirect_uri,       \* the redirect_uri put into the params of the authorize URL
    rd_auth_url,           \* that parameter as it stands in the authorize URL, after urlencode
    rd_query,              \* the query string of the request that reaches /danlon/callback
    rd_exchange_uri,       \* the redirect_uri posted with grant_type=authorization_code
    \* ---- the date filler on the outputs of one preview ----
    fd_pc,                 \* "build" while the files' records arrive, "filled" after the preview, "refilled"
    fd_records,            \* all_records of preview_data, in upload order
    fd_outputs,            \* what process_all_records returned
    fd_filled,             \* fill_missing_dates(fd_outputs), the outputs of the session
    fd_refilled,           \* fill_missing_dates applied to fd_filled
    \* ---- one call of a time splitter of time_calculator.py ----
    ts_pc,                 \* "idle" before the call, "done" after it
    ts_op,                 \* "norm", "day_night", "noon" or "boundary"
    ts_start,              \* start, in minutes since midnight
    ts_end,                \* end, in minutes since midnight
    ts_boundary,           \* the boundary of split_time_by_boundary, in minutes since midnight
    ts_result,             \* the two parts returned, as the minute counts that minutes_to_hours was given
    ts_raised,             \* the exception the call ended with, "" when it returned
    \* ---- the processing pipeline, run and run again on one list of records ----
    pl_pc,                 \* "build" while the file is parsed, "ran" after the first run, "reran" after the second
    pl_records,            \* all_records, the DailyRecords the stages mutate in place
    pl_first,              \* summaries and outputs of the first run
    pl_second,             \* summaries and outputs of the second run
    \* ---- process_all_records on the records of one worker around a turn of the year ----
    wk_pc,                 \* "build" while the file is parsed, "done" after process_all_records
    wk_records,            \* the DailyRecords of the worker, dates numbered from Monday 29 December 2025
    wk_summaries,          \* all_summaries, each with the key of its group
    \* ---- the page-fetch loop of fetch_from_external_api ----
    pf_pc,                 \* "idle", "loop" inside the while loop, "done" after the break, "failed" after an exception
    pf_page_number,        \* page_number
    pf_total_count,        \* total_count
    pf_time_registrations, \* time_registrations, a record being the pair of its page and its place on the page
    pf_requests,           \* the PageNumber of every request sent, in order
    pf_pages,              \* the page_results of every response, in order
    \* ---- the session ids the preview endpoints return and the calls that follow on them ----
    se_cache,              \* preview_cache with the keys of every entry
    se_returned,           \* the time at which each session_id was returned, NoEntry before
    se_result,             \* the session_id and the outcome of the last call on a session
    \* ---- export_from_preview on one cached session ----
    ex_pc,                 \* "none" before the preview, "cached" after it, "exported" after an export
    ex_outputs,            \* cached["outputs"], one DailyOutput per date
    ex_records,            \* the dates of cached["records"]; NoRecords when the entry has no records
    ex_selections,         \* call_out_selections of the last export
    ex_status,             \* the status of the last export
    \* ---- the DanlonAuthService singleton and the token file ----
    la_stored,             \* the token file: NoStored, or the refresh token in it
    la_cached_access_token,\* _cached_access_token, 0 for None
    la_cached_token_expires_at,\* _cached_token_expires_at, NoExpiry for None
    la_now,                \* datetime.now(), in units of five minutes
    la_issued,             \* the tokens the OAuth2 server has issued
    la_disconnected,       \* the tokens were deleted and no connection has been stored since
    la_returned            \* the number of calls of get_valid_access_token that returned, and the token of the last

otvars == <<ot_pc, day, weekly_total, weekly_norm_used, weekly_ot_hours_used,
            weekly_breakdown, last, summary>>

tokvars == <<now, rows, idp, hs, writer, nops>>

covars == <<co_pc, co_entries, co_eligible>>

syvars == <<sy_pc, sy_status, sy_session_id, sy_calls, sy_cfg, sy_n, sy_last, payparts, skipped, unmatched_workers, gql>>

abvars == <<ab_records, ab_sel, ab_result>>

pcvars == <<preview_cache, clock>>

psvars == <<pending_sessions, ps_hs, ps_now, ps_started, ps_stored, ps_reported>>

rdvars == <<rd_pc, rd_service, rd_redirect_uri, rd_auth_url, rd_query, rd_exchange_uri>>

fdvars == <<fd_pc, fd_records, fd_outputs, fd_filled, fd_refilled>>

tsvars == <<ts_pc, ts_op, ts_start, ts_end, ts_boundary, ts_result, ts_raised>>

plvars == <<pl_pc, pl_records, pl_first, pl_second>>

wkvars == <<wk_pc, wk_records, wk_summaries>>

pfvars == <<pf_pc, pf_page_number, pf_total_count, pf_time_registrations, pf_requests, pf_pages>>

sevars == <<se_cache, se_returned, se_result>>

exvars == <<ex_pc, ex_outputs, ex_records, ex_selections, ex_status>>

lavars == <<la_stored, la_cached_access_token, la_cached_token_expires_at, la_now, la_issued, la_disconnected, la_returned>>

vars == <<otvars, tokvars, covars, syvars, abvars, pcvars, psvars, rdvars, fdvars, tsvars, plvars, wkvars, pfvars, sevars, exvars, lavars>>

\* what the steps of one component leave alone
others_of_ot == <<tokvars, covars, syvars, abvars, pcvars, psvars, rdvars, fdvars, tsvars, plvars, wkvars, pfvars, sevars, exvars, lavars>>

others_of_tok == <<otvars, covars, syvars, abvars, pcvars, psvars, rdvars, fdvars, tsvars, plvars, wkvars, pfvars, sevars, exvars, lavars>>

others_of_co == <<otvars, tokvars, syvars, abvars, pcvars, psvars, rdvars, fdvars, tsvars, plvars, wkvars, pfvars, sevars, exvars, lavars>>

others_of_sy == <<otvars, tokvars, covars, abvars, pcvars, psvars, rdvars, fdvars, tsvars, plvars, wkvars, pfvars, sevars, exvars, lavars>>

others_of_ab == <<otvars, tokvars, covars, syvars, pcvars, psvars, rdvars, fdvars, tsvars, plvars, wkvars, pfvars, sevars, exvars, lavars>>

others_of_pc == <<otvars, tokvars, covars, syvars, abvars, psvars, rdvars, fdvars, tsvars, plvars, wkvars, pfvars, sevars, exvars, lavars>>

others_of_ps == <<otvars, tokvars, covars, syvars, abvars, pcvars, rdvars, fdvars, tsvars, plvars, wkvars, pfvars, sevars, exvars, lavars>>

others_of_rd == <<otvars, tokvars, covars, syvars, abvars, pcvars, psvars, fdvars, tsvars, plvars, wkvars, pfvars, sevars, exvars, lavars>>

others_of_fd == <<otvars, tokvars, covars, syvars, abvars, pcvars, psvars, rdvars, tsvars, plvars, wkvars, pfvars, sevars, exvars, lavars>>

others_of_ts == <<otvars, tokvars, covars, syvars, abvars, pcvars, psvars, rdvars, fdvars, plvars, wkvars, pfvars, sevars, exvars, lavars>>

others_of_pl == <<otvars, tokvars, covars, syvars, abvars, pcvars, psvars, rdvars, fdvars, tsvars, wkvars, pfvars, sevars, exvars, lavars>>

others_of_wk == <<otvars, tokvars, covars, syvars, abvars, pcvars, psvars, rdvars, fdvars, tsvars, plvars, pfvars, sevars, exvars, lavars>>

others_of_pf == <<otvars, tokvars, covars, syvars, abvars, pcvars, psvars, rdvars, fdvars, tsvars, plvars, wkvars, sevars, exvars, lavars>>

others_of_se == <<otvars, tokvars, covars, syvars, abvars, pcvars, psvars, rdvars, fdvars, tsvars, plvars, wkvars, pfvars, exvars, lavars>>

others_of_ex == <<otvars, tokvars, covars, syvars, abvars, pcvars, psvars, rdvars, fdvars, tsvars, plvars, wkvars, pfvars, sevars, lavars>>

others_of_la == <<otvars, tokvars, covars, syvars, abvars, pcvars, psvars, rdvars, fdvars, tsvars, plvars, wkvars, pfvars, sevars, exvars>>

-----------------------------------------------------------------------------
(* Program constants, in minutes *)

WEEKLY_NORM_HOURS == 2220

STANDARD_DAILY_HOURS == WEEKLY_NORM_HOURS \div 5

OT_DAY_START == 360

OT_DAY_END == 1080

SUNDAY_NOON == 720

Min(a, b) == IF a <= b THEN a ELSE b

Max(a, b) == IF a >= b THEN a ELSE b

-----------------------------------------------------------------------------
(* Double-precision arithmetic on hour values *)

\* 4u mod 5: five times the fraction that u/5 hours leaves above a whole
\* multiple of 2^-50
fl_phi(u) == (4 * u) % 5

\* the exact value x, counted in units of 2^-50 hours, modulo 64
fl_low6(x) == (6400 - 13 * fl_phi(x[1]) + x[2]) % 64

\* x >= p hours, p a power of two
fl_ge(x, p) == x[1] > 5 * p \/ (x[1] = 5 * p /\ x[2] >= 0)

\* the spacing of the doubles around x, in units of 2^-50 hours
fl_ulp(x) ==
    IF fl_ge(x, 128) THEN 32
    ELSE IF fl_ge(x, 64) THEN 16
    ELSE IF fl_ge(x, 32) THEN 8
    ELSE IF fl_ge(x, 16) THEN 4
    ELSE IF fl_ge(x, 8) THEN 2
    ELSE 1

\* x, an exact multiple of 2^-50 hours of spacing p and low bits low6, moved
\* to the nearest double, ties to even
fl_nearest(x, p, low6) ==
    LET low == low6 % p
        odd == ((low6 - low) \div p) % 2 = 1
    IN IF low = 0 THEN x
       ELSE IF 2 * low > p \/ (2 * low = p /\ odd) THEN <<x[1], x[2] - low + p>>
       ELSE <<x[1], x[2] - low>>

\* round-to-nearest, ties to even, of an exact multiple of 2^-50 hours
fl_round(x) == fl_nearest(x, fl_ulp(x), fl_low6(x))

\* 1 when the fractions of a/5 and b/5 hours add up to a whole unit
fl_carry(a, b) == IF fl_phi(a) + fl_phi(b) >= 5 THEN 1 ELSE 0

\* float addition
fl_add(x, y) == fl_round(<<x[1] + y[1], x[2] + y[2] - fl_carry(x[1], y[1])>>)

\* float subtraction x - y, for x >= y
fl_sub(x, y) ==
    fl_round(<<x[1] - y[1], x[2] - y[2] + fl_carry(x[1] - y[1], y[1])>>)

fl_lt(x, y) == x[1] < y[1] \/ (x[1] = y[1] /\ x[2] < y[2])

fl_min(x, y) == IF fl_lt(y, x) THEN y ELSE x

\* max(0, x - y)
fl_max0_sub(x, y) == IF fl_lt(y, x) THEN fl_sub(x, y) ELSE <<0, 0>>

\* the double 0.0
fl_zero == <<0, 0>>

\* the double of a whole number of hours (2.0, 4.0, 37.0): exact
whole_hours(n) == <<5 * n, 0>>

\* the double nearest to u/5 hours, given the spacing p of the doubles there
\* and the low bits low6 of floor(u * 2^50 / 5)
nearest_double(u, p, low6) ==
    LET low == low6 % p
        odd == ((low6 - low) \div p) % 2 = 1
        up == IF fl_phi(u) = 0 THEN 2 * low > p \/ (2 * low = p /\ odd)
              ELSE 10 * low + 2 * fl_phi(u) > 5 * p
    IN IF up THEN <<u, p - low>> ELSE <<u, 0 - low>>

\* m / 60.0 for m minutes, a multiple of 12: the double nearest to m/60
minutes_to_hours(m) ==
    nearest_double(m \div 12, fl_ulp(<<m \div 12, 0>>), fl_low6(<<m \div 12, 0>>))

\* round(x, 2): the double nearest to the two-decimal value of x
round2(x) == minutes_to_hours(12 * x[1])

-----------------------------------------------------------------------------
(* time_calculator.py *)

\* <<hours before the boundary, hours at or after it>>
split_time_by_boundary(start, end, boundary) ==
    IF end <= start THEN <<fl_zero, fl_zero>>
    ELSE IF end <= boundary THEN <<minutes_to_hours(end - start), fl_zero>>
    ELSE IF start >= boundary THEN <<fl_zero, minutes_to_hours(end - start)>>
    ELSE <<minutes_to_hours(boundary - start), minutes_to_hours(end - boundary)>>

\* <<hours in 06:00-18:00, hours outside it>>
calculate_overtime_day_night_split(start, end) ==
    IF end <= start THEN <<fl_zero, fl_zero>>
    ELSE LET day_overlap_start == Max(start, OT_DAY_START)
             day_overlap_end == Min(end, OT_DAY_END)
             day_minutes == IF day_overlap_end > day_overlap_start
                            THEN day_overlap_end - day_overlap_start ELSE 0
         IN <<minutes_to_hours(day_minutes),
              minutes_to_hours((end - start) - day_minutes)>>

calculate_sunday_noon_split(start, end) ==
    split_time_by_boundary(start, end, SUNDAY_NOON)

-----------------------------------------------------------------------------
(* overtime_calculator.py *)

Buckets == {"ot_weekday_hour_1_2", "ot_weekday_hour_3_4", "ot_weekday_hour_5_plus",
            "ot_weekday_scheduled_day", "ot_weekday_scheduled_night",
            "ot_dayoff_day", "ot_dayoff_night",
            "ot_saturday_day", "ot_saturday_night",
            "ot_sunday_before_noon", "ot_sunday_after_noon"}

\* OvertimeBreakdown(): every bucket 0.0
OvertimeBreakdown == [b \in Buckets |-> fl_zero]

\* an OvertimeBreakdown() with the two parts of a split put in two buckets
breakdown_of_split(split, first, second) ==
    [b \in Buckets |-> IF b = first THEN split[1]
                       ELSE IF b = second THEN split[2]
                       ELSE fl_zero]

categorize_entry_overtime(entry_start, entry_end, day_type, is_day_off) ==
    IF day_type = "Sunday" THEN
        breakdown_of_split(calculate_sunday_noon_split(entry_start, entry_end),
                           "ot_sunday_before_noon", "ot_sunday_after_noon")
    ELSE IF day_type = "Saturday" THEN
        breakdown_of_split(calculate_overtime_day_night_split(entry_start, entry_end),
                           "ot_saturday_day", "ot_saturday_night")
    ELSE IF is_day_off THEN
        breakdown_of_split(calculate_overtime_day_night_split(entry_start, entry_end),
                           "ot_dayoff_day", "ot_dayoff_night")
    ELSE
        breakdown_of_split(calculate_overtime_day_night_split(entry_start, entry_end),
                           "ot_weekday_scheduled_day", "ot_weekday_scheduled_night")

\* the first block with the tier ending at the fourth overtime hour of the
\* week instead of the second
hours_1_2_up_to_four(remaining, current_ot_count) ==
    IF fl_lt(current_ot_count, whole_hours(4)) /\ fl_lt(fl_zero, remaining)
    THEN fl_min(remaining, fl_sub(whole_hours(4), current_ot_count))
    ELSE fl_zero

\* the first block of apply_hourly_thresholds: hours_1_2, the part of the
\* remaining hours that fits below the second overtime hour of the week
hours_1_2_of(remaining, current_ot_count) ==
    IF fl_lt(current_ot_count, whole_hours(2)) /\ fl_lt(fl_zero, remaining)
    THEN fl_min(remaining, fl_sub(whole_hours(2), current_ot_count))
    ELSE fl_zero

\* the first block with the room in the tier taken as the whole tier
\* (available = 2.0) instead of what the week has not yet used
hours_1_2_whole_tier(remaining, current_ot_count) ==
    IF fl_lt(current_ot_count, whole_hours(2)) /\ fl_lt(fl_zero, remaining)
    THEN fl_min(remaining, whole_hours(2))
    ELSE fl_zero

\* the second block: hours_3_4
hours_3_4_of(remaining, current_ot_count) ==
    IF fl_lt(current_ot_count, whole_hours(4)) /\ fl_lt(fl_zero, remaining)
    THEN fl_min(remaining, fl_sub(whole_hours(4), current_ot_count))
    ELSE fl_zero

\* the third block and the result: what remains goes to hours_5_plus
thresholds_result(hours_1_2, hours_3_4, remaining) ==
    <<hours_1_2, hours_3_4, IF fl_lt(fl_zero, remaining) THEN remaining ELSE fl_zero>>

\* the blocks after the first.  A block that is skipped leaves its hours at
\* 0.0, and taking 0.0 from remaining (adding it to the count) leaves the
\* double unchanged, as skipping the two updates does.
thresholds_after_1_2(hours_1_2, remaining, current_ot_count) ==
    thresholds_result(hours_1_2, hours_3_4_of(remaining, current_ot_count),
                      fl_sub(remaining, hours_3_4_of(remaining, current_ot_count)))

\* apply_hourly_thresholds with hours_1_2 not limited by what the week used
apply_hourly_thresholds_whole_tier(total_overtime_hours, weekly_ot_used) ==
    thresholds_after_1_2(
        hours_1_2_whole_tier(total_overtime_hours, weekly_ot_used),
        fl_sub(total_overtime_hours,
               hours_1_2_whole_tier(total_overtime_hours, weekly_ot_used)),
        fl_add(weekly_ot_used,
               hours_1_2_whole_tier(total_overtime_hours, weekly_ot_used)))

\* <<hours_1_2, hours_3_4, hours_5_plus>>
apply_hourly_thresholds(total_overtime_hours, weekly_ot_used) ==
    thresholds_after_1_2(
        hours_1_2_of(total_overtime_hours, weekly_ot_used),
        fl_sub(total_overtime_hours, hours_1_2_of(total_overtime_hours, weekly_ot_used)),
        fl_add(weekly_ot_used, hours_1_2_of(total_overtime_hours, weekly_ot_used)))

merge_overtime_breakdowns(a, b) == [k \in Buckets |-> fl_add(a[k], b[k])]

RECURSIVE SumEntries(_, _, _)
\* the accumulation loops of categorize_day_overtime: the breakdowns of
\* entries[1..n], added up bucket by bucket
SumEntries(entries, n, rec) ==
    IF n = 0 THEN OvertimeBreakdown
    ELSE merge_overtime_breakdowns(
             SumEntries(entries, n - 1, rec),
             categorize_entry_overtime(entries[n][1], entries[n][2],
                                       rec.day_type, rec.is_day_off))

\* day_total = record.total_hours + record.credited_hours
day_total_of(record) == fl_add(record.total_hours, record.credited_hours)

\* norm_hours = min(day_total, max(0, WEEKLY_NORM_HOURS - weekly_norm_used))
norm_hours_of(record, norm_used) ==
    fl_min(day_total_of(record),
           fl_max0_sub(whole_hours(WEEKLY_NORM_HOURS \div 60), norm_used))

\* ot_hours = max(0, day_total - norm_hours)
ot_hours_of(record, norm_hours) == fl_max0_sub(day_total_of(record), norm_hours)

\* day_breakdown with the three tiers set
tiers_breakdown(t) ==
    [OvertimeBreakdown EXCEPT !.ot_weekday_hour_1_2 = t[1],
                              !.ot_weekday_hour_3_4 = t[2],
                              !.ot_weekday_hour_5_plus = t[3]]

\* day_breakdown of a working weekday: the tiers, and the scheduled day and
\* night hours of every entry
weekday_breakdown(t, per_entry) ==
    [tiers_breakdown(t) EXCEPT
        !.ot_weekday_scheduled_day = per_entry.ot_weekday_scheduled_day,
        !.ot_weekday_scheduled_night = per_entry.ot_weekday_scheduled_night]

\* categorize_day_overtime from line 236 on, norm_hours and ot_hours computed
day_overtime_result(record, ot_used, norm_hours, ot_hours) ==
    IF ot_hours = fl_zero THEN
        [bd |-> OvertimeBreakdown, norm |-> norm_hours, ot |-> fl_zero]
    ELSE IF record.total_hours = fl_zero /\ fl_lt(fl_zero, record.credited_hours) THEN
        [bd |-> tiers_breakdown(apply_hourly_thresholds(ot_hours, ot_used)),
         norm |-> norm_hours, ot |-> ot_hours]
    ELSE IF record.day_type = "Weekday" /\ ~record.is_day_off THEN
        [bd |-> weekday_breakdown(apply_hourly_thresholds(ot_hours, ot_used),
                                  SumEntries(record.entries, Len(record.entries), record)),
         norm |-> norm_hours, ot |-> ot_hours]
    ELSE
        [bd |-> SumEntries(record.entries, Len(record.entries), record),
         norm |-> norm_hours, ot |-> ot_hours]

\* [bd |-> day_breakdown, norm |-> norm_hours, ot |-> ot_hours]
categorize_day_overtime(record, norm_used, ot_used) ==
    day_overtime_result(record, ot_used, norm_hours_of(record, norm_used),
                        ot_hours_of(record, norm_hours_of(record, norm_used)))

-----------------------------------------------------------------------------
(* Daily records fed to the engine *)

\* The entry lists a day can carry, each entry <<start, end>> in minutes of
\* the day, in time order and without overlap:
\*   a weekday  07:00-15:00 (8 h), 07:00-14:24 (7.4 h), or 07:00-15:00 and
\*              16:00-20:00 (12 h, crosses 18:00)
\*   a Saturday 16:00-20:00 (crosses 18:00), or the 12 h pair
\*   a Sunday   10:00-14:00 (crosses noon), or the 12 h pair
\* and, for a day marked absent by hand, no entry at all.
EntryLists(day_type) ==
    {<<>>, <<(<<420, 900>>), (<<960, 1200>>)>>}
    \cup (IF day_type = "Weekday" THEN {<<(<<420, 900>>)>>, <<(<<420, 864>>)>>}
          ELSE IF day_type = "Saturday" THEN {<<(<<960, 1200>>)>>}
          ELSE {<<(<<600, 840>>)>>})

\* 'X Timer Y Minutter' -> hours + (minutes / 60.0).  For the durations of
\* the model this is the double nearest to the duration in hours.
parse_danish_duration(hours, minutes) == minutes_to_hours(60 * hours + minutes)

RECURSIVE TotalOf(_, _)
\* csv_parser.py:243: total_hours = sum(e.total_hours for e in entries), the
\* duration column of an entry being its end minus its start
TotalOf(entries, n) ==
    IF n = 0 THEN fl_zero
    ELSE fl_add(TotalOf(entries, n - 1),
                parse_danish_duration((entries[n][2] - entries[n][1]) \div 60,
                                      (entries[n][2] - entries[n][1]) % 60))

DayTypeOf(d) == IF d = 6 THEN "Saturday" ELSE IF d = 7 THEN "Sunday" ELSE "Weekday"

\* The records of weekday d after apply_credited_hours: an absent day is
\* credited 7.4 h and becomes a day off.  A record without entries exists only
\* for a day marked absent; a day found absent from the activity text of its
\* entries carries the two-entry list.
RecordsFor(d) ==
    {[day_type |-> DayTypeOf(d),
      entries |-> x[1],
      total_hours |-> TotalOf(x[1], Len(x[1])),
      credited_hours |-> IF x[2] THEN minutes_to_hours(STANDARD_DAILY_HOURS)
                         ELSE fl_zero,
      is_day_off |-> x[2]] :
        x \in {y \in EntryLists(DayTypeOf(d)) \X BOOLEAN :
                  (Len(y[1]) = 0 => y[2]) /\ (Len(y[1]) = 1 => ~y[2])}}

NoRecord == [day_type |-> "None", entries |-> <<>>,
             total_hours |-> fl_zero,
             credited_hours |-> fl_zero, is_day_off |-> FALSE]

NoLast == [record |-> NoRecord, norm_before |-> fl_zero,
           ot_before |-> fl_zero,
           bd |-> OvertimeBreakdown, norm |-> fl_zero,
           ot |-> fl_zero]

NoSummary == [total_hours |-> fl_zero, normal_hours |-> fl_zero,
              overtime_breakdown |-> OvertimeBreakdown]

\* The state of calculate_weekly_overtime before its loop.
OTStart ==
    /\ ot_pc = "loop"
    /\ day = 0
    /\ weekly_total = fl_zero
    /\ weekly_norm_used = fl_zero
    /\ weekly_ot_hours_used = fl_zero
    /\ weekly_breakdown = OvertimeBreakdown
    /\ last = NoLast
    /\ summary = NoSummary

\* One iteration of the loop of calculate_weekly_overtime, on the record of
\* weekday d.  Records come sorted by date and the engine never reads the date
\* itself, so the weekday records of a week are numbered 1, 2, ... without
\* gaps; Saturday (6) and Sunday (7) may each be missing.
ProcessRecord(d, record) ==
    /\ ot_pc = "loop"
    /\ d > day
    /\ d = day + 1 \/ d >= 6
    /\ \E r \in {categorize_day_overtime(record, weekly_norm_used, weekly_ot_hours_used)} :
          /\ weekly_total' = fl_add(weekly_total, record.total_hours)
          /\ weekly_norm_used' = fl_add(weekly_norm_used, r.norm)
          /\ weekly_ot_hours_used' = fl_add(weekly_ot_hours_used, r.ot)
          /\ weekly_breakdown' = merge_overtime_breakdowns(weekly_breakdown, r.bd)
          /\ last' = [record |-> record, norm_before |-> weekly_norm_used,
                      ot_before |-> weekly_ot_hours_used,
                      bd |-> r.bd, norm |-> r.norm, ot |-> r.ot]
    /\ day' = d
    /\ UNCHANGED <<ot_pc, summary>>
    /\ UNCHANGED others_of_ot

\* The WeeklySummary built after the loop (only for a week with records).
EmitSummary ==
    /\ ot_pc = "loop"
    /\ day > 0
    /\ summary' = [total_hours |-> round2(weekly_total),
                   normal_hours |-> round2(weekly_norm_used),
                   overtime_breakdown |-> weekly_breakdown]
    /\ ot_pc' = "done"
    /\ UNCHANGED <<day, weekly_total, weekly_norm_used, weekly_ot_hours_used,
                   weekly_breakdown, last>>
    /\ UNCHANGED others_of_ot

-----------------------------------------------------------------------------
(* The token broker: app/services/danlon_oauth.py and its callers.          *)
(* One (user_id, company_id) key is modelled; time is counted in minutes.   *)
(* Tokens are numbered by the IdP issuance that produced them (1, 2, ...);  *)
(* 0 stands for None.                                                       *)

\* The request handlers that can be in flight at the same time.
Handlers == {"h1", "h2"}

\* Bounds of the model.
MaxTime == 1

MaxOps == 3

MaxIssued == 3

\* The expires_in values (minutes) the IdP and the marketplace answer with.
ExpiresIn == {1, 2}

NoRow == [id |-> 0, access |-> 0, refresh |-> 0, expires_at |-> 0]

NoTokens == [access |-> 0, refresh |-> 0, expires_in |-> 0]

Idle == [pc |-> "idle", op |-> "none", tokens |-> NoRow, new_tokens |-> NoTokens,
         existing |-> 0, expires_at |-> 0, read_at |-> 0, contacted |-> FALSE,
         wrote |-> NoRow, result |-> 0, cause |-> "none"]

\* The database is empty and the IdP has issued nothing.  The IdP either
\* rotates the refresh token on every refresh or never does.
TokStart ==
    /\ now = 0
    /\ rows = <<>>
    /\ idp \in {[issued |-> 0, live |-> {}, rotated |-> {}, rotates |-> r] : r \in BOOLEAN}
    /\ hs = [h \in Handlers |-> Idle]
    /\ writer = "none"
    /\ nops = 0

\* result.scalar_one_or_none() over the rows of the key: the row, None, or
\* MultipleResultsFound.
scalar_one_or_none(rs) ==
    IF Len(rs) = 0 THEN [found |-> "none", row |-> NoRow]
    ELSE IF Len(rs) = 1 THEN [found |-> "one", row |-> rs[1]]
    ELSE [found |-> "many", row |-> NoRow]

\* get_tokens: the row as a dict, or None (also when the query raised).
get_tokens(rs) ==
    LET r == scalar_one_or_none(rs)
    IN IF r.found = "one" THEN r.row ELSE NoRow

\* datetime.utcnow() < tokens["expires_at"] - timedelta(minutes=1)
token_still_valid(t, expires_at) == t < expires_at - 1

\* the refresh token to store, always the one read before the refresh
refresh_token_to_store_old(new_tokens, tokens) == tokens.refresh

\* new_tokens.get("refresh_token", tokens["refresh_token"])
refresh_token_to_store(new_tokens, tokens) ==
    IF new_tokens.refresh # 0 THEN new_tokens.refresh ELSE tokens.refresh

\* the failure path of get_valid_access_token dropping the stored row
rows_after_refresh_failure_delete(rs) == <<>>

\* except Exception: log and return None; the table is not touched
rows_after_refresh_failure(rs) == rs

\* store_tokens, the existing row found: its fields overwritten in one commit
updated_row(existing_row, access, refresh, expires_at) ==
    [existing_row EXCEPT !.access = access, !.refresh = refresh,
                         !.expires_at = expires_at]

Set(h, r) == hs' = [hs EXCEPT ![h] = r]

Start(h, op, pc) ==
    /\ hs[h].pc = "idle"
    /\ nops < MaxOps
    /\ nops' = nops + 1
    /\ Set(h, [Idle EXCEPT !.pc = pc, !.op = op])
    /\ UNCHANGED <<now, rows, idp, writer>>
    /\ UNCHANGED others_of_tok

\* A request that calls get_valid_access_token (token refresh endpoint,
\* DanlonAPIService._execute_query).
StartGetValid(h) == Start(h, "get_valid_access_token", "read")

\* The success callback or the manual completion, up to its code exchange.
StartComplete(h) == Start(h, "complete", "exchange")

\* POST /danlon/disconnect
StartDisconnect(h) == Start(h, "disconnect", "disc_read")

\* get_valid_access_token, lines 485-491: read the row and test its expiry.
GetValidRead(h) ==
    /\ hs[h].pc = "read"
    /\ LET tokens == get_tokens(rows)
       IN IF tokens = NoRow
          THEN Set(h, [hs[h] EXCEPT !.pc = "done", !.result = 0, !.cause = "no_row",
                                    !.read_at = now])
          ELSE IF token_still_valid(now, tokens.expires_at)
          THEN Set(h, [hs[h] EXCEPT !.pc = "done", !.tokens = tokens,
                                    !.result = tokens.access, !.cause = "fresh",
                                    !.read_at = now])
          ELSE Set(h, [hs[h] EXCEPT !.pc = "refresh", !.tokens = tokens,
                                    !.read_at = now])
    /\ UNCHANGED <<now, rows, idp, writer, nops>>
    /\ UNCHANGED others_of_tok

\* refresh_access_token answered with 200: a new access token and, when the
\* IdP rotates, a new refresh token.  The IdP accepts a live refresh token
\* and, within its grace window, one it has rotated out.
RefreshAccepted(h) ==
    /\ hs[h].pc = "refresh"
    /\ hs[h].tokens.refresh \in idp.live \cup idp.rotated
    /\ idp.issued < MaxIssued
    /\ \E e \in ExpiresIn :
         LET n == idp.issued + 1
             old == hs[h].tokens.refresh
         IN /\ idp' = IF idp.rotates
                      THEN [idp EXCEPT !.issued = n,
                                       !.live = (idp.live \ {old}) \cup {n},
                                       !.rotated = idp.rotated \cup {old}]
                      ELSE [idp EXCEPT !.issued = n]
            /\ Set(h, [hs[h] EXCEPT !.pc = "store_select", !.contacted = TRUE,
                          !.new_tokens = [access |-> n,
                                          refresh |-> IF idp.rotates THEN n ELSE 0,
                                          expires_in |-> e]])
    /\ UNCHANGED <<now, rows, writer, nops>>
    /\ UNCHANGED others_of_tok

\* refresh_access_token raised (non-200 answer, no client secret): lines
\* 508-510 log the error and return None.
RefreshRejected(h) ==
    /\ hs[h].pc = "refresh"
    /\ rows' = rows_after_refresh_failure(rows)
    /\ Set(h, [hs[h] EXCEPT !.pc = "done", !.contacted = TRUE, !.result = 0,
                            !.cause = "refresh_failed"])
    /\ UNCHANGED <<now, idp, writer, nops>>
    /\ UNCHANGED others_of_tok

\* exchange_code_for_final_tokens: the marketplace hands out the final pair.
CompleteExchange(h) ==
    /\ hs[h].pc = "exchange"
    /\ idp.issued < MaxIssued
    /\ \E e \in ExpiresIn :
         LET n == idp.issued + 1
         IN /\ idp' = [idp EXCEPT !.issued = n, !.live = idp.live \cup {n}]
            /\ Set(h, [hs[h] EXCEPT !.pc = "store_select",
                          !.new_tokens = [access |-> n, refresh |-> n, expires_in |-> e]])
    /\ UNCHANGED <<now, rows, writer, nops>>
    /\ UNCHANGED others_of_tok

\* store_tokens, lines 372-379: select the existing row, compute expires_at.
\* MultipleResultsFound leaves store_tokens by its except branch.
StoreSelect(h) ==
    /\ hs[h].pc = "store_select"
    /\ LET r == scalar_one_or_none(rows)
       IN IF r.found = "many"
          THEN Set(h, [hs[h] EXCEPT !.pc = "done", !.result = 0, !.cause = "store_failed"])
          ELSE Set(h, [hs[h] EXCEPT !.pc = "store_commit", !.existing = r.row.id,
                                    !.expires_at = now + hs[h].new_tokens.expires_in])
    /\ UNCHANGED <<now, rows, idp, writer, nops>>
    /\ UNCHANGED others_of_tok

\* store_tokens, lines 381-405: update the row selected, or insert a new
\* one, and commit; get_valid_access_token then returns the new access token.
\* Updating a row that was deleted since the select matches no row, which the
\* ORM reports as an error.
StoreCommit(h) ==
    /\ hs[h].pc = "store_commit"
    /\ LET me == hs[h]
           access == me.new_tokens.access
           refresh == IF me.op = "complete" THEN me.new_tokens.refresh
                      ELSE refresh_token_to_store(me.new_tokens, me.tokens)
           at == {i \in 1..Len(rows) : rows[i].id = me.existing}
           fresh_row == [id |-> access, access |-> access, refresh |-> refresh,
                         expires_at |-> me.expires_at]
       IN IF me.existing # 0 /\ at = {}
          THEN /\ Set(h, [me EXCEPT !.pc = "done", !.result = 0, !.cause = "store_failed"])
               /\ UNCHANGED <<rows, writer>>
          ELSE /\ IF me.existing # 0
                  THEN LET i == CHOOSE j \in at : TRUE
                           row == updated_row(rows[i], access, refresh, me.expires_at)
                       IN /\ rows' = [rows EXCEPT ![i] = row]
                          /\ Set(h, [me EXCEPT !.pc = "done", !.wrote = row,
                                               !.result = access, !.cause = "stored"])
                  ELSE /\ rows' = Append(rows, fresh_row)
                       /\ Set(h, [me EXCEPT !.pc = "done", !.wrote = fresh_row,
                                            !.result = access, !.cause = "stored"])
               /\ writer' = h
    /\ UNCHANGED <<now, idp, nops>>
    /\ UNCHANGED others_of_tok

\* disconnect, lines 378-380: no tokens read, 404.
DisconnectRead(h) ==
    /\ hs[h].pc = "disc_read"
    /\ LET tokens == get_tokens(rows)
       IN IF tokens = NoRow
          THEN Set(h, [hs[h] EXCEPT !.pc = "done", !.cause = "not_found"])
          ELSE Set(h, [hs[h] EXCEPT !.pc = "revoke", !.tokens = tokens])
    /\ UNCHANGED <<now, rows, idp, writer, nops>>
    /\ UNCHANGED others_of_tok

\* disconnect, line 384: revoke_token answered with 200.
RevokeAccepted(h) ==
    /\ hs[h].pc = "revoke"
    /\ idp' = [idp EXCEPT !.live = idp.live \ {hs[h].tokens.refresh},
                          !.rotated = idp.rotated \ {hs[h].tokens.refresh}]
    /\ Set(h, [hs[h] EXCEPT !.pc = "delete", !.contacted = TRUE])
    /\ UNCHANGED <<now, rows, writer, nops>>
    /\ UNCHANGED others_of_tok

\* disconnect, lines 398-400: revoke_token raised; the handler answers 500
\* and delete_tokens is not reached.
RevokeFailed(h) ==
    /\ hs[h].pc = "revoke"
    /\ Set(h, [hs[h] EXCEPT !.pc = "done", !.contacted = TRUE, !.cause = "revoke_failed"])
    /\ UNCHANGED <<now, rows, idp, writer, nops>>
    /\ UNCHANGED others_of_tok

\* disconnect, line 387: delete_tokens removes every row of the key.
DisconnectDelete(h) ==
    /\ hs[h].pc = "delete"
    /\ rows' = <<>>
    /\ Set(h, [hs[h] EXCEPT !.pc = "done", !.cause = "disconnected"])
    /\ UNCHANGED <<now, idp, writer, nops>>
    /\ UNCHANGED others_of_tok

\* The handler has answered; it is free for the next request.
Return(h) ==
    /\ hs[h].pc = "done"
    /\ Set(h, Idle)
    /\ UNCHANGED <<now, rows, idp, writer, nops>>
    /\ UNCHANGED others_of_tok

\* A minute passes.
Tick ==
    /\ now < MaxTime
    /\ now' = now + 1
    /\ UNCHANGED <<rows, idp, hs, writer, nops>>
    /\ UNCHANGED others_of_tok

-----------------------------------------------------------------------------
(* The call-out detector: app/services/call_out_detector.py *)

CALL_OUT_MORNING_END == 420

CALL_OUT_EVENING_START == 930

CALL_OUT_CONTINUATION_START == 960

\* Bound of the model: the entries of one record.
MaxEntries == 2

\* The clock times entries start and end at: 06:45, 07:00, 15:29, 15:30,
\* 15:59, 16:00, 17:00.
CallOutTimes == {405, 420, 929, 930, 959, 960, 1020}

\* An entry is <<start_time, end_time>>.
CallOutEntries == {e \in CallOutTimes \X CallOutTimes : e[1] < e[2]}

COStart ==
    /\ co_pc = "build"
    /\ co_entries = <<>>
    /\ co_eligible = FALSE

RECURSIVE InsertByStart(_, _)
\* e put into a list sorted by start time, behind the entries that start at
\* the same time
InsertByStart(sorted, e) ==
    IF sorted = <<>> THEN <<e>>
    ELSE IF e[1] < Head(sorted)[1] THEN <<e>> \o sorted
    ELSE <<Head(sorted)>> \o InsertByStart(Tail(sorted), e)

RECURSIVE SortedByStart(_, _)
\* sorted(record.entries, key=lambda e: e.start_time), a stable sort, of
\* entries[1..n]
SortedByStart(entries, n) ==
    IF n = 0 THEN <<>>
    ELSE InsertByStart(SortedByStart(entries, n - 1), entries[n])

\* start > CALL_OUT_EVENING_START
starts_in_evening_after(start) == start > CALL_OUT_EVENING_START

\* start >= CALL_OUT_EVENING_START
starts_in_evening(start) == start >= CALL_OUT_EVENING_START

\* prev_entry.end_time > CALL_OUT_EVENING_START
ended_recently_after(end) == end > CALL_OUT_EVENING_START

\* prev_entry.end_time >= CALL_OUT_EVENING_START
ended_recently(end) == end >= CALL_OUT_EVENING_START

RECURSIVE DetectFrom(_, _)
\* the loop of detect_call_out_eligibility from index i on
DetectFrom(sorted_entries, i) ==
    IF i > Len(sorted_entries) THEN FALSE
    ELSE LET start == sorted_entries[i][1]
             has_recent_work ==
                 \E j \in 1..(i - 1) : ended_recently(sorted_entries[j][2])
         IN IF start < CALL_OUT_MORNING_END THEN TRUE
            ELSE IF starts_in_evening(start)
            THEN IF start >= CALL_OUT_CONTINUATION_START /\ has_recent_work
                 THEN DetectFrom(sorted_entries, i + 1)
                 ELSE TRUE
            ELSE DetectFrom(sorted_entries, i + 1)

detect_call_out_eligibility(entries) ==
    DetectFrom(SortedByStart(entries, Len(entries)), 1)

\* The parser appends an entry to the day's record.
AddEntry(e) ==
    /\ co_pc = "build"
    /\ Len(co_entries) < MaxEntries
    /\ co_entries' = Append(co_entries, e)
    /\ UNCHANGED <<co_pc, co_eligible>>
    /\ UNCHANGED others_of_co

\* mark_call_out_eligibility sets the record's flag.
DetectCallOut ==
    /\ co_pc = "build"
    /\ co_eligible' = detect_call_out_eligibility(co_entries)
    /\ co_pc' = "done"
    /\ UNCHANGED co_entries
    /\ UNCHANGED others_of_co

-----------------------------------------------------------------------------
(* Sync to Danlon: sync_to_danlon in app/routers/danlon_oauth.py and        *)
(* create_payparts in app/services/danlon_api.py.                           *)
(* Hours that were rounded to n decimals are kept as whole multiples of     *)
(* 10^-n; the buckets of a breakdown are whole minutes.                     *)

\* Bound of the model: the rows of cached outputs one sync run takes.
MaxRows == 2

\* str.lower() on the names and ids of the model
Lower(str) ==
    CASE str = "Anna Berg" -> "anna berg"
      [] str = "ANNA BERG" -> "anna berg"
      [] str = "CARL" -> "carl"
      [] str = "Carl" -> "carl"
      [] str = "Dan" -> "dan"
      [] str = "Bo" -> "bo"
      [] OTHER -> str

\* Python's round(): n / d to the nearest integer, ties to the even one
RoundHalfEven(n, d) ==
    LET q == n \div d
        r == n % d
    IN IF 2 * r < d THEN q
       ELSE IF 2 * r > d THEN q + 1
       ELSE IF q % 2 = 0 THEN q ELSE q + 1

\* The active employees get_employees can return.
LiveLists ==
    LET e1 == [id |-> "E1", name |-> "Anna Berg", domainId |-> "7"]
        e2 == [id |-> "E2", name |-> "Bo", domainId |-> ""]
    IN {<<>>, <<e1>>, <<e1, e2>>}

\* The DanlonEmployeeMapping rows of the (user, company), as
\* save_employee_mapping writes them: explicit rows first, then at most one
\* fallback row, every row with a non-empty danlon_employee_id.
MappingRowLists ==
    LET m1 == [ftz_employee_name |-> "CARL", danlon_employee_id |-> "E2", is_fallback |-> FALSE]
        m2 == [ftz_employee_name |-> "7", danlon_employee_id |-> "E2", is_fallback |-> FALSE]
        f1 == [ftz_employee_name |-> "", danlon_employee_id |-> "E1", is_fallback |-> TRUE]
    IN {<<>>, <<m1>>, <<m1, m2>>, <<f1>>, <<m1, f1>>, <<m1, m2, f1>>}

\* The worker names of the cached rows: line 2 of the uploaded file, or the
\* employee name the external API returns.
WorkerNames == {"ANNA BERG", "Carl", "Dan", "7"}

NoBuckets == [b \in Buckets |-> 0]

\* The engine's breakdown of a weekday of 07:00-15:00 and 16:00-20:00 worked
\* when 33 h of the norm are used, in minutes per bucket.
WeekdayOvertimeBuckets ==
    LET record == [day_type |-> "Weekday",
                   entries |-> <<(<<420, 900>>), (<<960, 1200>>)>>,
                   total_hours |-> minutes_to_hours(720),
                   credited_hours |-> minutes_to_hours(0),
                   is_day_off |-> FALSE]
        bd == categorize_day_overtime(record, minutes_to_hours(1980),
                                      minutes_to_hours(0)).bd
    IN [b \in Buckets |-> 12 * bd[b][1]]

\* The hours of a DailyOutput row: normal_hours in hundredths of an hour (it
\* is round(day_norm, 2)), overtime_breakdown in minutes, the call-out fields
\* (call_out_payment in hundredths of a krone).
RowHours ==
    {[normal_hours |-> 742, overtime_breakdown |-> NoBuckets,
      call_out_applied |-> FALSE, call_out_payment |-> 0],
     [normal_hours |-> 400, overtime_breakdown |-> WeekdayOvertimeBuckets,
      call_out_applied |-> FALSE, call_out_payment |-> 0],
     [normal_hours |-> 0,
      overtime_breakdown |-> [NoBuckets EXCEPT !.ot_saturday_day = 130,
                                               !.ot_saturday_night = 120],
      call_out_applied |-> FALSE, call_out_payment |-> 0],
     [normal_hours |-> 0, overtime_breakdown |-> NoBuckets,
      call_out_applied |-> TRUE, call_out_payment |-> 75000],
     [normal_hours |-> 0, overtime_breakdown |-> NoBuckets,
      call_out_applied |-> FALSE, call_out_payment |-> 0]}

\* The session ids of the calls; "s3" was never cached.
SyncSessionIds == {"s1", "s2", "s3"}

\* upload.py: preview_cache, by session id the number of cached outputs
\* (the rows themselves are drawn as the loop takes them).
sync_preview_cache == [session_id \in {"s1", "s2"} |->
                      IF session_id = "s1" THEN MaxRows ELSE 0]

NoSyncRow == [worker |-> "", hours |-> CHOOSE h \in RowHours :
                                 h.normal_hours = 0 /\ ~h.call_out_applied
                                 /\ h.overtime_breakdown = NoBuckets,
              employee_id |-> "", relevant |-> FALSE]

NoCfg == [employees |-> <<>>, emp_mapping_rows |-> <<>>,
          employee_by_name |-> <<>>, employee_id_by_ftz_name |-> <<>>,
          fallback_employee_id |-> ""]

SyStart ==
    /\ sy_pc = "idle"
    /\ sy_status = 0
    /\ sy_session_id = ""
    /\ sy_calls = <<>>
    /\ sy_cfg = NoCfg
    /\ sy_n = 0
    /\ sy_last = NoSyncRow
    /\ payparts = <<>>
    /\ skipped = <<>>
    /\ unmatched_workers = {}
    /\ gql = <<>>

\* A dict as a function from its keys; d.get(k) is "" when k is no key.
Get(d, k) == IF k \in DOMAIN d THEN d[k] ELSE ""

\* d[k] = v
Put(d, k, v) == [x \in DOMAIN d \cup {k} |-> IF x = k THEN v ELSE d[x]]

RECURSIVE employee_by_name(_, _)
\* lines 1064-1072, over employees[1..n]: every employee indexed by its
\* lower-cased name and by its lower-cased domainId (the id kept in place of
\* the employee dict)
employee_by_name(employees, n) ==
    IF n = 0 THEN <<>>
    ELSE LET d == employee_by_name(employees, n - 1)
             emp == employees[n]
             d1 == IF emp.name # "" THEN Put(d, Lower(emp.name), emp.id) ELSE d
         IN IF emp.domainId # "" THEN Put(d1, Lower(emp.domainId), emp.id) ELSE d1

RECURSIVE employee_id_by_ftz_name(_, _)
\* lines 1043-1049, the explicit rows of emp_mapping_rows[1..n]
employee_id_by_ftz_name(emp_mapping_rows, n) ==
    IF n = 0 THEN <<>>
    ELSE LET d == employee_id_by_ftz_name(emp_mapping_rows, n - 1)
             emp_row == emp_mapping_rows[n]
         IN IF ~emp_row.is_fallback /\ emp_row.ftz_employee_name # ""
            THEN Put(d, Lower(emp_row.ftz_employee_name), emp_row.danlon_employee_id)
            ELSE d

RECURSIVE fallback_employee_id(_, _)
\* lines 1043-1047, the fallback row of emp_mapping_rows[1..n]
fallback_employee_id(emp_mapping_rows, n) ==
    IF n = 0 THEN ""
    ELSE IF emp_mapping_rows[n].is_fallback
         THEN emp_mapping_rows[n].danlon_employee_id
         ELSE fallback_employee_id(emp_mapping_rows, n - 1)

\* the three-step lookup, lines 1097-1110
resolve_employee_id(cfg, worker_name) ==
    LET by_name == Get(cfg.employee_by_name, Lower(worker_name))
        mapped_id == Get(cfg.employee_id_by_ftz_name, Lower(worker_name))
    IN IF by_name # "" THEN by_name
       ELSE IF mapped_id # "" THEN mapped_id
       ELSE cfg.fallback_employee_id

\* _sum_overtime: all eleven buckets of the breakdown added up, in minutes
sum_overtime(breakdown) ==
    breakdown.ot_weekday_hour_1_2 + breakdown.ot_weekday_hour_3_4
    + breakdown.ot_weekday_hour_5_plus
    + breakdown.ot_weekday_scheduled_day + breakdown.ot_weekday_scheduled_night
    + breakdown.ot_dayoff_day + breakdown.ot_dayoff_night
    + breakdown.ot_saturday_day + breakdown.ot_saturday_night
    + breakdown.ot_sunday_before_noon + breakdown.ot_sunday_after_noon

\* round(_sum_overtime(breakdown), 4), in ten-thousandths of an hour
total_overtime(breakdown) == RoundHalfEven(10000 * sum_overtime(breakdown), 60)

\* int(float(units) * 100), the fraction cut off
centesimal_truncated(units) == units \div 100

\* int(round(float(pp["units"]) * 100)), units in ten-thousandths of an hour
centesimal(units) == RoundHalfEven(units, 100)

\* _paypart_to_gql; -1 stands for a field that is left out
paypart_to_gql(pp) ==
    [employeeId |-> pp.employeeId, code |-> pp.code,
     units |-> IF pp.units >= 0 THEN centesimal(pp.units) ELSE -1,
     amount |-> IF pp.amount >= 0 THEN RoundHalfEven(pp.amount, 100) ELSE -1]

\* _execute_query with a request that is posted again after the first POST
execute_query_retried(calls, has_token, request) ==
    IF has_token THEN calls \o <<"token", request, request>> ELSE Append(calls, "token")

\* DanlonAPIService._execute_query: the access token is read
\* (get_valid_access_token) and, when there is one, the request is posted
\* (query_graphql, one POST, never repeated).  The operations a request adds
\* to those of the call.
execute_query(calls, has_token, request) ==
    IF has_token THEN calls \o <<"token", request>> ELSE Append(calls, "token")

\* Steps 1 and 2 of the handler: the cached outputs of the session and the
\* company of the connection.  has_connection: get_all_tokens_for_user
\* finds a stored token of the user.
SyncResolve(session_id, company_id, has_connection) ==
    /\ sy_pc = "idle"
    /\ sy_session_id' = session_id
    /\ IF session_id \notin DOMAIN sync_preview_cache
       THEN /\ sy_status' = 404
            /\ sy_pc' = "failed"
            /\ UNCHANGED sy_calls
       ELSE IF sync_preview_cache[session_id] = 0
       THEN /\ sy_status' = 400
            /\ sy_pc' = "failed"
            /\ UNCHANGED sy_calls
       ELSE /\ sy_calls' = IF company_id = "" THEN <<"tokens">> ELSE <<>>
            /\ IF company_id = "" /\ ~has_connection
               THEN sy_status' = 400 /\ sy_pc' = "failed"
               ELSE sy_pc' = "resolved" /\ UNCHANGED sy_status
    /\ UNCHANGED <<sy_cfg, sy_n, sy_last, payparts, skipped, unmatched_workers, gql>>
    /\ UNCHANGED others_of_sy

\* Steps 3 and 4 of the handler: the mapping rows and the live employee list
\* are read and the lookups built.
SyncLoad(has_token, fetched) ==
    /\ sy_pc = "resolved"
    /\ sy_calls' = execute_query(sy_calls, has_token, "companiesExt")
    /\ IF ~(has_token /\ fetched)
       THEN /\ sy_status' = 502
            /\ sy_pc' = "failed"
            /\ UNCHANGED sy_cfg
       ELSE /\ \E employees \in LiveLists, emp_mapping_rows \in MappingRowLists :
                 sy_cfg' = [employees |-> employees,
                            emp_mapping_rows |-> emp_mapping_rows,
                            employee_by_name |-> employee_by_name(employees, Len(employees)),
                            employee_id_by_ftz_name |->
                                employee_id_by_ftz_name(emp_mapping_rows, Len(emp_mapping_rows)),
                            fallback_employee_id |->
                                fallback_employee_id(emp_mapping_rows, Len(emp_mapping_rows))]
            /\ sy_pc' = "loop"
            /\ UNCHANGED sy_status
    /\ UNCHANGED <<sy_session_id, sy_n, sy_last, payparts, skipped, unmatched_workers, gql>>
    /\ UNCHANGED others_of_sy

\* One iteration of the loop over outputs, lines 1082-1139.  A pay-part
\* keeps units in ten-thousandths of an hour and amount in hundredths of a
\* krone (-1: no such field); hours is the exact figure the units stand for,
\* as <<numerator, denominator>> of hours.
SyncRow(worker_name, hours) ==
    /\ sy_pc = "loop"
    /\ sy_n < MaxRows
    /\ sy_n' = sy_n + 1
    /\ LET normal_hours == hours.normal_hours
           ot == total_overtime(hours.overtime_breakdown)
           relevant == ~(normal_hours <= 0 /\ ot <= 0 /\ ~hours.call_out_applied)
           employee_id == resolve_employee_id(sy_cfg, worker_name)
           normal_part == IF normal_hours > 0
                          THEN <<[employeeId |-> employee_id, code |-> "normal",
                                  units |-> 100 * normal_hours, amount |-> -1,
                                  hours |-> <<normal_hours, 100>>]>>
                          ELSE <<>>
           overtime_part == IF ot > 0
                            THEN <<[employeeId |-> employee_id, code |-> "overtime",
                                    units |-> ot, amount |-> -1,
                                    hours |-> <<sum_overtime(hours.overtime_breakdown), 60>>]>>
                            ELSE <<>>
           callout_part == IF hours.call_out_applied /\ hours.call_out_payment > 0
                           THEN <<[employeeId |-> employee_id, code |-> "callout",
                                   units |-> -1, amount |-> hours.call_out_payment,
                                   hours |-> <<0, 1>>]>>
                           ELSE <<>>
       IN /\ sy_last' = [worker |-> worker_name, hours |-> hours,
                         employee_id |-> IF relevant THEN employee_id ELSE "",
                         relevant |-> relevant]
          /\ IF ~relevant
             THEN UNCHANGED <<payparts, skipped, unmatched_workers>>
             ELSE IF employee_id = ""
             THEN /\ unmatched_workers' = unmatched_workers \cup {worker_name}
                  /\ skipped' = Append(skipped, worker_name)
                  /\ UNCHANGED payparts
             ELSE /\ payparts' = payparts \o normal_part \o overtime_part \o callout_part
                  /\ UNCHANGED <<skipped, unmatched_workers>>
    /\ UNCHANGED <<sy_pc, sy_status, sy_session_id, sy_calls, sy_cfg, gql>>
    /\ UNCHANGED others_of_sy

\* Step 6 (or the early answer when there is nothing to submit):
\* create_payparts turns every pay-part into its GraphQL literal and posts
\* the one mutation.  created: the upstream answered without errors.
SyncSubmit(has_token, created) ==
    /\ sy_pc = "loop"
    /\ IF payparts = <<>>
       THEN /\ sy_status' = 200
            /\ sy_pc' = "done"
            /\ UNCHANGED <<sy_calls, gql>>
       ELSE /\ sy_calls' = execute_query(sy_calls, has_token, "createPayParts")
            /\ gql' = IF has_token
                      THEN [i \in 1..Len(payparts) |-> paypart_to_gql(payparts[i])]
                      ELSE gql
            /\ IF has_token /\ created
               THEN sy_status' = 200 /\ sy_pc' = "done"
               ELSE sy_status' = 502 /\ sy_pc' = "failed"
    /\ UNCHANGED <<sy_session_id, sy_cfg, sy_n, sy_last, payparts, skipped, unmatched_workers>>
    /\ UNCHANGED others_of_sy

-----------------------------------------------------------------------------
(* Absence marking: POST /preview and POST /mark-absence/{session_id} in    *)
(* app/routers/upload.py, with mark_absence_types and apply_credited_hours. *)
(* Of a DailyRecord the model keeps the activity texts of its entries, in   *)
(* the order of the entries (<<>>: no entries), absent_type, credited_hours *)
(* in minutes and is_day_off.  A text is a sequence of characters.          *)

\* The dates of the session.
Dates == {1, 2}

\* class AbsentType(str, Enum): the names of its members
AbsentType == {"NONE", "VACATION", "SICK", "PUBLIC_HOLIDAY"}

\* Bound of the model: the entries of a day of an uploaded file.
MaxDayEntries == 2

\* the activity texts an entry of an uploaded file can carry
ActivityTexts ==
    {<<"a", "r", "b", "e", "j", "d", "e">>,
     <<"F", "e", "r", "i", "e">>,
     <<"s", "y", "g">>,
     <<"H", "e", "l", "l", "i", "g", "d", "a", "g">>}

\* the activity texts of a day's entries in an uploaded file (<<>>: no entries)
Activities ==
    UNION {[1..n -> ActivityTexts] : n \in 0..MaxDayEntries}

\* the values of a date in absence_selections ("": the date is not selected)
Selections == {"", "Vacation", "Sick", "Kursus", "None"}

NoDailyRecord == [exists |-> FALSE, activity |-> <<>>, absent_type |-> "NONE",
                  credited_hours |-> 0, is_day_off |-> FALSE]

NoSelection == [d \in Dates |-> ""]

AbStart ==
    /\ ab_records = [d \in Dates |-> NoDailyRecord]
    /\ ab_sel = NoSelection
    /\ ab_result = "none"

\* absence_detector.py: VACATION_KEYWORDS
VACATION_KEYWORDS ==
    <<<<"f", "e", "r", "i", "e">>,
      <<"v", "a", "c", "a", "t", "i", "o", "n">>,
      <<"a", "f", "s", "p", "a", "d", "s", "e", "r", "i", "n", "g">>,
      <<"f", "r", "i", "d", "a", "g">>,
      <<"a", "f", "s", "p", "a", "d", "s", "e", "r", "i", "n", "g">>>>

\* absence_detector.py: SICK_KEYWORDS
SICK_KEYWORDS ==
    <<<<"s", "y", "g">>,
      <<"s", "y", "g", "d", "o", "m">>,
      <<"s", "i", "c", "k">>,
      <<"b", "a", "r", "n", "s", " ", "s", "y", "g", "e", "d", "a", "g">>,
      <<"b", "a", "r", "n", "s", " ", "1", ".", " ", "s", "y", "g", "e", "d", "a", "g">>,
      <<"b", "a", "r", "n", "s", " ", "2", ".", " ", "s", "y", "g", "e", "d", "a", "g">>>>

\* absence_detector.py: HOLIDAY_KEYWORDS
HOLIDAY_KEYWORDS ==
    <<<<"h", "e", "l", "l", "i", "g", "d", "a", "g">>,
      <<"h", "o", "l", "i", "d", "a", "y">>,
      <<"p", "u", "b", "l", "i", "c", " ", "h", "o", "l", "i", "d", "a", "y">>,
      <<"f", "r", "i", "d", "a", "g">>,
      <<"j", "u", "l", "e", "d", "a", "g">>,
      <<"n", "y", "t", "å", "r", "s", "d", "a", "g">>,
      <<"p", "å", "s", "k", "e">>,
      <<"p", "i", "n", "s", "e">>,
      <<"s", "t", "o", "r", "e", " ", "b", "e", "d", "e", "d", "a", "g">>,
      <<"k", "r", ".", " ", "h", "i", "m", "m", "e", "l", "f", "a", "r", "t", "s", "d", "a", "g">>,
      <<"g", "r", "u", "n", "d", "l", "o", "v", "s", "d", "a", "g">>>>

\* str.lower() of a character of the texts of the model
lower_char(c) ==
    CASE c = "F" -> "f"
      [] c = "H" -> "h"
      [] c = "S" -> "s"
      [] OTHER -> c

\* entry.activity.lower()
lower(text) == [i \in DOMAIN text |-> lower_char(text[i])]

\* keyword in activity_lower
keyword_in(keyword, text) ==
    \E i \in 0..(Len(text) - Len(keyword)) :
        SubSeq(text, i + 1, i + Len(keyword)) = keyword

\* for keyword in KEYWORDS: if keyword in activity_lower
any_keyword_in(keywords, text) ==
    \E k \in 1..Len(keywords) : keyword_in(keywords[k], text)

\* the body of the loop over the entries: vacation, then sick, then holiday
\* keywords tried on one entry ("": no keyword matches, the loop goes on)
absence_of_entry(activity_lower) ==
    IF any_keyword_in(VACATION_KEYWORDS, activity_lower) THEN "VACATION"
    ELSE IF any_keyword_in(SICK_KEYWORDS, activity_lower) THEN "SICK"
    ELSE IF any_keyword_in(HOLIDAY_KEYWORDS, activity_lower) THEN "PUBLIC_HOLIDAY"
    ELSE ""

RECURSIVE absence_from(_, _)
\* the loop over record.entries from the i-th entry on: the first entry
\* with a keyword decides
absence_from(activities, i) ==
    IF i > Len(activities) THEN "NONE"
    ELSE IF absence_of_entry(lower(activities[i])) # ""
         THEN absence_of_entry(lower(activities[i]))
         ELSE absence_from(activities, i + 1)

\* absence_detector.py:41-72
detect_absence_from_activity(record) == absence_from(record.activity, 1)

\* absence_detector.py: only a record still at NONE is given a detected type
mark_absence_types(records) ==
    [d \in DOMAIN records |->
        IF records[d].exists /\ records[d].absent_type = "NONE"
        THEN [records[d] EXCEPT !.absent_type = detect_absence_from_activity(records[d])]
        ELSE records[d]]

\* the credit added to what the record already carries
apply_credited_hours_added(records) ==
    [d \in DOMAIN records |->
        IF records[d].exists
           /\ records[d].absent_type \in {"VACATION", "SICK", "PUBLIC_HOLIDAY"}
        THEN [records[d] EXCEPT !.credited_hours = @ + STANDARD_DAILY_HOURS,
                                !.is_day_off = TRUE]
        ELSE records[d]]

\* overtime_calculator.py:71-90: an absent record is credited the standard
\* day and made a day off; no other record is touched
apply_credited_hours(records) ==
    [d \in DOMAIN records |->
        IF records[d].exists
           /\ records[d].absent_type \in {"VACATION", "SICK", "PUBLIC_HOLIDAY"}
        THEN [records[d] EXCEPT !.credited_hours = STANDARD_DAILY_HOURS,
                                !.is_day_off = TRUE]
        ELSE records[d]]

\* The members the dict literal absent_type_map looks up, by selection text.
absent_type_map ==
    [str \in {"Vacation", "Sick", "Kursus", "None"} |->
        CASE str = "Vacation" -> "VACATION"
          [] str = "Sick" -> "SICK"
          [] str = "Kursus" -> "KURSUS"
          [] OTHER -> "NONE"]

\* upload.py:326-371: the selections applied to the cached records.  A date
\* with a record is marked only when the record has no entries; a date
\* without a record gets a new record without entries.
apply_selections(records, selections) ==
    [d \in Dates |->
        IF selections[d] \notin DOMAIN absent_type_map THEN records[d]
        ELSE IF records[d].exists
        THEN IF records[d].activity = <<>>
             THEN [records[d] EXCEPT !.absent_type = absent_type_map[selections[d]]]
             ELSE records[d]
        ELSE [NoDailyRecord EXCEPT !.exists = TRUE,
                                   !.absent_type = absent_type_map[selections[d]]]]

\* POST /preview of a file with entries: the parser makes a record for every
\* date with entries, then
\* mark_absence_types and apply_credited_hours run and the records are cached.
Preview(file) ==
    /\ \E d \in Dates : file[d] # <<>>
    /\ ab_records' = apply_credited_hours(mark_absence_types(
           [d \in Dates |->
               IF file[d] = <<>> THEN NoDailyRecord
               ELSE [NoDailyRecord EXCEPT !.exists = TRUE, !.activity = file[d]]]))
    /\ ab_sel' = NoSelection
    /\ ab_result' = "previewed"
    /\ UNCHANGED others_of_ab

\* POST /mark-absence/{session_id} on the cached session.  Building
\* absent_type_map evaluates every member it names; a name that is no member
\* of AbsentType raises AttributeError before any record is touched.
MarkAbsence(selections) ==
    /\ ab_result # "none"
    /\ ab_sel' = selections
    /\ IF \A str \in DOMAIN absent_type_map : absent_type_map[str] \in AbsentType
       THEN /\ ab_records' = apply_credited_hours(mark_absence_types(
                                 apply_selections(ab_records, selections)))
            /\ ab_result' = "marked"
       ELSE /\ ab_result' = "AttributeError"
            /\ UNCHANGED ab_records
    /\ UNCHANGED others_of_ab

\* POST /mark-absence/{session_id} before any preview: 404
MarkAbsenceNoSession ==
    /\ ab_result \in {"none", "not found"}
    /\ ab_result' = "not found"
    /\ UNCHANGED <<ab_records, ab_sel>>
    /\ UNCHANGED others_of_ab

-----------------------------------------------------------------------------
(* The preview cache: the inserts of preview_data (app/routers/upload.py)   *)
(* and fetch_from_external_api (app/routers/api_fetch.py).  Time is in      *)
(* whole hours.                                                             *)

\* Bounds of the model: the session ids in use and the hours the clock runs.
MaxSessions == 2

MaxClock == 27

HoursPerDay == 24

SessionIds == 1..MaxSessions

NoEntry == -1

PcStart ==
    /\ preview_cache = [sid \in SessionIds |-> NoEntry]
    /\ clock = 0

\* timedelta.seconds of a non-negative difference, in hours: the part of the
\* difference below one day (the days are kept in timedelta.days)
timedelta_seconds(later, earlier) == (later - earlier) % HoursPerDay

\* upload.py:194-200: the keys whose entry is swept
expired_keys(cache, current_time) ==
    {key \in SessionIds :
        /\ cache[key] # NoEntry
        /\ timedelta_seconds(current_time, cache[key]) > 1}

\* POST /preview: the new session is cached, then the sweep runs.
PreviewInsert(session_id) ==
    /\ preview_cache[session_id] = NoEntry
    /\ LET cache == [preview_cache EXCEPT ![session_id] = clock]
       IN preview_cache' = [key \in SessionIds |->
                               IF key \in expired_keys(cache, clock)
                               THEN NoEntry ELSE cache[key]]
    /\ UNCHANGED clock
    /\ UNCHANGED others_of_pc

\* POST /fetch-from-api: the new session is cached; this path has no sweep.
ApiFetchInsert(session_id) ==
    /\ preview_cache[session_id] = NoEntry
    /\ preview_cache' = [preview_cache EXCEPT ![session_id] = clock]
    /\ UNCHANGED clock
    /\ UNCHANGED others_of_pc

\* time passes: an hour, or a day
ClockTick(hours) ==
    /\ clock + hours <= MaxClock
    /\ clock' = clock + hours
    /\ UNCHANGED preview_cache
    /\ UNCHANGED others_of_pc

-----------------------------------------------------------------------------
(* Pending sessions: oauth_callback, success_callback, pending_session and  *)
(* complete_connection in app/routers/danlon_oauth.py.  The three service   *)
(* methods they call (create_pending_session, get_pending_session,          *)
(* delete_pending_session) are written from the description of the          *)
(* PendingSession lifecycle: created with a TTL of 15 minutes, deleted on   *)
(* completion or, lazily, once expired.  Time is in units of five minutes.  *)

\* Bounds of the model: the requests of the flow and the time that passes.
MaxFlowRequests == 3

MaxPsClock == 4

\* the 15 minutes a pending session lives
PENDING_SESSION_TTL == 3

FlowHandlers == {"f1", "f2"}

\* the users GET /danlon/pending is asked about; the flow itself always
\* runs as "demo_user"
PendingUsers == {"demo_user", "other_user"}

FlowIdle == [op |-> "none", pc |-> "idle", temp_access_token |-> 0, result |-> "none"]

NotReported == [pending |-> FALSE, session_id |-> 0, expires_at |-> 0, at |-> 0]

PsStart ==
    /\ pending_sessions = {}
    /\ ps_hs = [h \in FlowHandlers |-> FlowIdle]
    /\ ps_now = 0
    /\ ps_started = 0
    /\ ps_stored = FALSE
    /\ ps_reported = NotReported

\* create_pending_session: a row with a new session id that expires after
\* the TTL
create_pending_session(sessions, session_id, user_id, temp_access_token, at) ==
    sessions \cup {[session_id |-> session_id, user_id |-> user_id,
                    temp_access_token |-> temp_access_token,
                    expires_at |-> at + PENDING_SESSION_TTL]}

\* get_pending_session: the rows of the user that have not expired
active_pending_sessions(sessions, user_id, at) ==
    {row \in sessions : row.user_id = user_id /\ row.expires_at > at}

\* get_pending_session, the lazy expiry: the rows of the user that have
\* expired are deleted by the read
sessions_after_get(sessions, user_id, at) ==
    {row \in sessions : row.user_id # user_id \/ row.expires_at > at}

\* delete_pending_session: every row of the user goes
delete_pending_session(sessions, user_id) ==
    {row \in sessions : row.user_id # user_id}

\* oauth_callback with every failed exchange taken for a success
callback_persists_always(exchanged) == TRUE

\* oauth_callback, lines 111-134: the pending session is created inside the
\* try, after exchange_code_for_temp_token returned
callback_persists(exchanged) == exchanged

PsSet(h, r) == ps_hs' = [ps_hs EXCEPT ![h] = r]

\* A request of the flow arrives: GET /danlon/callback with a code, or a
\* completion (GET /danlon/success or POST /danlon/complete with a code).
StartFlowRequest(h, op) ==
    /\ ps_hs[h].pc = "idle"
    /\ ps_started < MaxFlowRequests
    /\ ps_started' = ps_started + 1
    /\ PsSet(h, [FlowIdle EXCEPT !.op = op, !.pc = "exchange"])
    /\ UNCHANGED <<pending_sessions, ps_now, ps_stored, ps_reported>>
    /\ UNCHANGED others_of_ps

\* oauth_callback, lines 111-150: the first exchange answers or raises; the
\* session is persisted and the user redirected, or the except branch answers
\* with the error page.
CallbackExchange(h, exchanged) ==
    /\ ps_hs[h].op = "callback"
    /\ ps_hs[h].pc = "exchange"
    /\ LET token == IF exchanged THEN ps_started ELSE 0
       IN IF callback_persists(exchanged)
          THEN /\ pending_sessions' = create_pending_session(pending_sessions, ps_started,
                                                             "demo_user", token, ps_now)
               /\ PsSet(h, [ps_hs[h] EXCEPT !.pc = "done", !.temp_access_token = token,
                                            !.result = "redirected"])
          ELSE /\ PsSet(h, [ps_hs[h] EXCEPT !.pc = "done", !.result = "error page"])
               /\ UNCHANGED pending_sessions
    /\ UNCHANGED <<ps_now, ps_started, ps_stored, ps_reported>>
    /\ UNCHANGED others_of_ps

\* success_callback lines 186-192 and complete_connection lines 568-575: the
\* code is exchanged for the final tokens, or the handler answers an error.
CompletionExchange(h, exchanged) ==
    /\ ps_hs[h].op = "completion"
    /\ ps_hs[h].pc = "exchange"
    /\ IF exchanged
       THEN PsSet(h, [ps_hs[h] EXCEPT !.pc = "store"])
       ELSE PsSet(h, [ps_hs[h] EXCEPT !.pc = "done", !.result = "error"])
    /\ UNCHANGED <<pending_sessions, ps_now, ps_started, ps_stored, ps_reported>>
    /\ UNCHANGED others_of_ps

\* success_callback lines 220-226 and complete_connection lines 609-616:
\* store_tokens commits the OAuthToken or raises.
CompletionStore(h, committed) ==
    /\ ps_hs[h].op = "completion"
    /\ ps_hs[h].pc = "store"
    /\ IF committed
       THEN /\ ps_stored' = TRUE
            /\ PsSet(h, [ps_hs[h] EXCEPT !.pc = "delete"])
       ELSE /\ PsSet(h, [ps_hs[h] EXCEPT !.pc = "done", !.result = "error"])
            /\ UNCHANGED ps_stored
    /\ UNCHANGED <<pending_sessions, ps_now, ps_started, ps_reported>>
    /\ UNCHANGED others_of_ps

\* success_callback line 231 and complete_connection line 617: the pending
\* session of the user is deleted and the handler answers.
CompletionDelete(h) ==
    /\ ps_hs[h].op = "completion"
    /\ ps_hs[h].pc = "delete"
    /\ pending_sessions' = delete_pending_session(pending_sessions, "demo_user")
    /\ PsSet(h, [ps_hs[h] EXCEPT !.pc = "done", !.result = "stored"])
    /\ UNCHANGED <<ps_now, ps_started, ps_stored, ps_reported>>
    /\ UNCHANGED others_of_ps

\* GET /danlon/pending, lines 513-540
PendingSession(user_id) ==
    /\ LET active == active_pending_sessions(pending_sessions, user_id, ps_now)
       IN IF active = {}
          THEN ps_reported' = [NotReported EXCEPT !.at = ps_now]
          ELSE \E row \in active :
                  ps_reported' = [pending |-> TRUE, session_id |-> row.session_id,
                                  expires_at |-> row.expires_at, at |-> ps_now]
    /\ pending_sessions' = sessions_after_get(pending_sessions, user_id, ps_now)
    /\ UNCHANGED <<ps_hs, ps_now, ps_started, ps_stored>>
    /\ UNCHANGED others_of_ps

\* the response is sent
FlowReturn(h) ==
    /\ ps_hs[h].pc = "done"
    /\ PsSet(h, FlowIdle)
    /\ UNCHANGED <<pending_sessions, ps_now, ps_started, ps_stored, ps_reported>>
    /\ UNCHANGED others_of_ps

\* five minutes pass
PsTick ==
    /\ ps_now < MaxPsClock
    /\ ps_now' = ps_now + 1
    /\ UNCHANGED <<pending_sessions, ps_hs, ps_started, ps_stored, ps_reported>>
    /\ UNCHANGED others_of_ps

-----------------------------------------------------------------------------
(* The redirect_uri of a connection flow: get_authorization_url and        *)
(* oauth_callback (app/routers/danlon_oauth.py, app/services/              *)
(* danlon_oauth.py), build_authorize_url and callback (app/routers/        *)
(* danlon.py, app/services/danlon_auth.py).  A URI is a sequence of        *)
(* characters; the callback URL and the parameter names, which hold no     *)
(* character that the query parser treats specially, are one element each. *)

MaxUriLen == 3

Services == {"oauth", "legacy"}

\* the characters a return_uri is made of
ReturnUriChars == {"a", "&", "+", "%", "2", "6"}

\* the values of the return_uri query parameter of /danlon/connect (the
\* empty one: no return_uri)
ReturnUris == UNION {[1..n -> ReturnUriChars] : n \in 0..MaxUriLen}

NoUri == <<>>

RdStart ==
    /\ rd_pc = "idle"
    /\ rd_service = "oauth"
    /\ rd_redirect_uri = NoUri
    /\ rd_auth_url = NoUri
    /\ rd_query = NoUri
    /\ rd_exchange_uri = NoUri

\* self.redirect_uri (danlon_oauth.py:56), f"{app_base_url}/danlon/callback"
\* (danlon.py:34, 71) and request.url_for("oauth_callback") of a request
\* that arrived at APP_BASE_URL
callback_url == <<"http://localhost:8000/danlon/callback">>

Contains(s, c) == \E i \in 1..Len(s) : s[i] = c

\* urllib.parse.quote_plus, which urlencode applies to every value
quote_char(c) ==
    CASE c = " " -> <<"+">>
      [] c = "&" -> <<"%", "2", "6">>
      [] c = "+" -> <<"%", "2", "B">>
      [] c = "%" -> <<"%", "2", "5">>
      [] c = "?" -> <<"%", "3", "F">>
      [] c = "=" -> <<"%", "3", "D">>
      [] OTHER -> <<c>>

RECURSIVE quote_plus(_)
quote_plus(s) ==
    IF s = <<>> THEN <<>> ELSE quote_char(Head(s)) \o quote_plus(Tail(s))

\* the escapes the decoder knows; any other "%" stays as it is
hex_pairs ==
    {<<"2", "6">>, <<"2", "B">>, <<"2", "5">>, <<"3", "F">>, <<"3", "D">>, <<"2", "0">>}

hex_char(p) ==
    CASE p = <<"2", "6">> -> "&"
      [] p = <<"2", "B">> -> "+"
      [] p = <<"2", "5">> -> "%"
      [] p = <<"3", "F">> -> "?"
      [] p = <<"3", "D">> -> "="
      [] OTHER -> " "

\* urllib.parse.unquote_plus: "+" is a space, "%XX" the character XX
RECURSIVE unquote_plus(_)
unquote_plus(s) ==
    IF s = <<>> THEN <<>>
    ELSE IF Head(s) = "%" /\ Len(s) >= 3 /\ <<s[2], s[3]>> \in hex_pairs
         THEN <<hex_char(<<s[2], s[3]>>)>> \o unquote_plus(SubSeq(s, 4, Len(s)))
         ELSE <<IF Head(s) = "+" THEN " " ELSE Head(s)>> \o unquote_plus(Tail(s))

\* the index of the first c in s, Len(s) + 1 when there is none
RECURSIVE IndexOf(_, _)
IndexOf(s, c) ==
    IF s = <<>> \/ Head(s) = c THEN 1 ELSE 1 + IndexOf(Tail(s), c)

\* str.split(sep)
RECURSIVE split(_, _)
split(s, sep) ==
    IF ~Contains(s, sep) THEN <<s>>
    ELSE <<SubSeq(s, 1, IndexOf(s, sep) - 1)>>
             \o split(SubSeq(s, IndexOf(s, sep) + 1, Len(s)), sep)

\* urllib.parse.parse_qsl, as Starlette calls it: fields are separated by
\* "&", name and value by the first "=", and both are unquoted
parse_qsl(query) ==
    [i \in 1..Len(split(query, "&")) |->
        [name |-> unquote_plus(SubSeq(split(query, "&")[i], 1,
                                      IndexOf(split(query, "&")[i], "=") - 1)),
         value |-> unquote_plus(SubSeq(split(query, "&")[i],
                                       IndexOf(split(query, "&")[i], "=") + 1,
                                       Len(split(query, "&")[i])))]]

\* Query(None) of a handler parameter: the value of the last field of that
\* name, NoUri (None) when there is none
query_param(fields, name) ==
    IF \E i \in 1..Len(fields) : fields[i].name = <<name>>
    THEN fields[CHOOSE i \in 1..Len(fields) :
                    /\ fields[i].name = <<name>>
                    /\ \A j \in (i + 1)..Len(fields) : fields[j].name # <<name>>].value
    ELSE NoUri

\* get_authorization_url (danlon_oauth.py:71-73)
get_authorization_url(return_uri) ==
    IF return_uri # NoUri
    THEN callback_url \o <<"?", "return_uri", "=">> \o return_uri
    ELSE callback_url

\* build_authorize_url (danlon_auth.py:55-58)
build_authorize_url(redirect_uri, return_uri) ==
    IF return_uri # NoUri
    THEN redirect_uri \o <<IF Contains(redirect_uri, "?") THEN "&" ELSE "?">>
             \o <<"return_uri", "=">> \o return_uri
    ELSE redirect_uri

\* the redirect_uri the callback handler rebuilds (danlon_oauth.py:111-113,
\* danlon.py:70-75)
callback_redirect_uri(return_uri) ==
    IF return_uri # NoUri
    THEN callback_url \o <<"?", "return_uri", "=">> \o return_uri
    ELSE callback_url

\* GET /danlon/connect: the handler builds the authorize URL and redirects
\* the browser to it
Connect(service, return_uri) ==
    /\ rd_pc = "idle"
    /\ rd_pc' = "authorize"
    /\ rd_service' = service
    /\ \E redirect_uri \in {IF service = "oauth"
                            THEN get_authorization_url(return_uri)
                            ELSE build_authorize_url(callback_url, return_uri)} :
           /\ rd_redirect_uri' = redirect_uri
           /\ rd_auth_url' = quote_plus(redirect_uri)
    /\ UNCHANGED <<rd_query, rd_exchange_uri>>
    /\ UNCHANGED others_of_rd

\* The provider reads redirect_uri from the authorize URL and, after the
\* user's answer, sends the browser to it with code (or error) added to its
\* query component; the browser requests that URL.
ProviderRedirect(consent) ==
    /\ rd_pc = "authorize"
    /\ rd_pc' = "callback"
    /\ \E redirect_uri \in {unquote_plus(rd_auth_url)} :
           rd_query' =
               (IF Contains(redirect_uri, "?")
                THEN SubSeq(redirect_uri, IndexOf(redirect_uri, "?") + 1,
                            Len(redirect_uri)) \o <<"&">>
                ELSE <<>>)
               \o (IF consent THEN <<"code", "=", "c">>
                   ELSE <<"error", "=", "access_denied">>)
    /\ UNCHANGED <<rd_service, rd_redirect_uri, rd_auth_url, rd_exchange_uri>>
    /\ UNCHANGED others_of_rd

\* GET /danlon/callback: oauth_callback (danlon_oauth.py:57-116) and
\* callback (danlon.py:44-78), up to the call of the code exchange
Callback ==
    /\ rd_pc = "callback"
    /\ \E fields \in {parse_qsl(rd_query)} :
           IF query_param(fields, "error") # NoUri \/ query_param(fields, "code") = NoUri
           THEN /\ rd_pc' = "failed"
                /\ UNCHANGED rd_exchange_uri
           ELSE /\ rd_pc' = "exchanged"
                /\ rd_exchange_uri' =
                       callback_redirect_uri(query_param(fields, "return_uri"))
    /\ UNCHANGED <<rd_service, rd_redirect_uri, rd_auth_url, rd_query>>
    /\ UNCHANGED others_of_rd

-----------------------------------------------------------------------------
(* The date filler (app/services/date_filler.py) on the outputs that       *)
(* process_all_records (app/services/overtime_calculator.py) returns.      *)
(* The dates are the first days of June 2026 (the 1st is a Monday, ISO     *)
(* week 23): a datetime.date is the day of the month, the DD-MM-YYYY       *)
(* string of a DailyOutput the pair of the two digits of DD.  Hours are    *)
(* whole hours.                                                            *)

MaxRecords == 3

MaxDate == 8

Workers == {"A", "B"}

\* the order of str on the worker names
worker_rank(worker) == IF worker = "A" THEN 1 ELSE 2

\* date.weekday(): 0 = Monday ... 6 = Sunday
weekday_of(d) == (d - 1) % 7

\* date.isocalendar()[1]
isocalendar_week(d) == 23 + (d - 1) \div 7

\* the day type the parser gives the date's day header
day_type_of(d) ==
    IF weekday_of(d) = 5 THEN "Saturday"
    ELSE IF weekday_of(d) = 6 THEN "Sunday" ELSE "Weekday"

\* date.strftime("%d-%m-%Y")
strftime(d) == <<d \div 10, d % 10>>

\* date(int(parts[2]), int(parts[1]), int(parts[0]))
parse_date(date_str) == 10 * date_str[1] + date_str[2]

FdStart ==
    /\ fd_pc = "build"
    /\ fd_records = <<>>
    /\ fd_outputs = <<>>
    /\ fd_filled = <<>>
    /\ fd_refilled = <<>>

\* (worker_name, year, week) of sorted(grouped.keys()), then the date of the
\* sort within the week
record_key_le(a, b) ==
    \/ worker_rank(a.worker_name) < worker_rank(b.worker_name)
    \/ /\ a.worker_name = b.worker_name
       /\ \/ a.week_number < b.week_number
          \/ a.week_number = b.week_number /\ a.date <= b.date

RECURSIVE insert_record(_, _)
insert_record(sorted, x) ==
    IF sorted = <<>> THEN <<x>>
    ELSE IF record_key_le(Head(sorted), x)
         THEN <<Head(sorted)>> \o insert_record(Tail(sorted), x)
         ELSE <<x>> \o sorted

\* group_records_by_week and the loop over sorted(grouped.keys()): the
\* records in the order in which calculate_weekly_overtime takes them
RECURSIVE group_records_by_week(_)
group_records_by_week(records) ==
    IF records = <<>> THEN <<>>
    ELSE insert_record(group_records_by_week(SubSeq(records, 1, Len(records) - 1)),
                       records[Len(records)])

\* weekly_total += day_total, over the records of the week up to the i-th
RECURSIVE weekly_total_at(_, _, _)
weekly_total_at(ordered, i, j) ==
    IF j = 0 THEN 0
    ELSE weekly_total_at(ordered, i, j - 1)
         + (IF /\ ordered[j].worker_name = ordered[i].worker_name
               /\ ordered[j].week_number = ordered[i].week_number
            THEN ordered[j].total_hours ELSE 0)

\* the DailyOutput of calculate_weekly_overtime
daily_output(ordered, i) ==
    [worker |-> ordered[i].worker_name,
     date |-> strftime(ordered[i].date),
     day_type |-> ordered[i].day_type,
     week_number |-> ordered[i].week_number,
     total_hours |-> ordered[i].total_hours,
     weekly_total |-> weekly_total_at(ordered, i, i)]

outputs_of(ordered) == [i \in 1..Len(ordered) |-> daily_output(ordered, i)]

process_all_records(records) == outputs_of(group_records_by_week(records))

\* the keys of worker_outputs, in the order of their first output
RECURSIVE worker_outputs_keys(_)
worker_outputs_keys(outputs) ==
    IF outputs = <<>> THEN <<>>
    ELSE IF \E i \in 1..(Len(outputs) - 1) : outputs[i].worker = outputs[Len(outputs)].worker
         THEN worker_outputs_keys(SubSeq(outputs, 1, Len(outputs) - 1))
         ELSE Append(worker_outputs_keys(SubSeq(outputs, 1, Len(outputs) - 1)),
                     outputs[Len(outputs)].worker)

\* worker_outputs[worker_name]
RECURSIVE worker_records_of(_, _)
worker_records_of(outputs, worker_name) ==
    IF outputs = <<>> THEN <<>>
    ELSE IF Head(outputs).worker = worker_name
         THEN <<Head(outputs)>> \o worker_records_of(Tail(outputs), worker_name)
         ELSE worker_records_of(Tail(outputs), worker_name)

dates_with_data(worker_records) ==
    {parse_date(worker_records[i].date) : i \in 1..Len(worker_records)}

weekend_dates(worker_records) ==
    {parse_date(worker_records[i].date) :
        i \in {k \in 1..Len(worker_records) :
                   worker_records[k].day_type \in {"Saturday", "Sunday"}}}

min_date(dates) == CHOOSE d \in dates : \A e \in dates : d <= e

max_date_day_after(dates) == (CHOOSE d \in dates : \A e \in dates : d >= e) + 1

max_date(dates) == CHOOSE d \in dates : \A e \in dates : d >= e

\* existing_dates[date_str]: of the records of one date, the dict keeps the last
existing_dates(worker_records, date_str) ==
    worker_records[CHOOSE i \in 1..Len(worker_records) :
                       /\ worker_records[i].date = date_str
                       /\ \A j \in (i + 1)..Len(worker_records) :
                              worker_records[j].date # date_str]

\* date_filler.py:85-104
empty_output(worker_name, current_date) ==
    [worker |-> worker_name,
     date |-> strftime(current_date),
     day_type |-> day_type_of(current_date),
     week_number |-> isocalendar_week(current_date),
     total_hours |-> 0,
     weekly_total |-> 0]

\* one turn of the while loop (date_filler.py:58-105)
outputs_for_date(worker_name, worker_records, current_date) ==
    IF \E i \in 1..Len(worker_records) : worker_records[i].date = strftime(current_date)
    THEN <<existing_dates(worker_records, strftime(current_date))>>
    ELSE IF weekday_of(current_date) < 5 \/ current_date \in weekend_dates(worker_records)
         THEN <<empty_output(worker_name, current_date)>>
         ELSE <<>>

RECURSIVE fill_range(_, _, _, _)
fill_range(worker_name, worker_records, current_date, last_date) ==
    IF current_date > last_date THEN <<>>
    ELSE outputs_for_date(worker_name, worker_records, current_date)
             \o fill_range(worker_name, worker_records, current_date + 1, last_date)

\* the body of the loop over the workers (date_filler.py:31-107)
fill_worker(worker_name, worker_records) ==
    fill_range(worker_name, worker_records,
               min_date(dates_with_data(worker_records)),
               max_date(dates_with_data(worker_records)))

RECURSIVE fill_workers(_, _)
fill_workers(worker_names, outputs) ==
    IF worker_names = <<>> THEN <<>>
    ELSE fill_worker(Head(worker_names), worker_records_of(outputs, Head(worker_names)))
             \o fill_workers(Tail(worker_names), outputs)

\* key=lambda x: (x.worker, _parse_date_for_sort(x.date))
output_key_le(a, b) ==
    \/ worker_rank(a.worker) < worker_rank(b.worker)
    \/ a.worker = b.worker /\ parse_date(a.date) <= parse_date(b.date)

RECURSIVE insert_output(_, _)
insert_output(sorted, x) ==
    IF sorted = <<>> THEN <<x>>
    ELSE IF output_key_le(Head(sorted), x)
         THEN <<Head(sorted)>> \o insert_output(Tail(sorted), x)
         ELSE <<x>> \o sorted

\* list.sort, which is stable
RECURSIVE sort_outputs(_)
sort_outputs(outputs) ==
    IF outputs = <<>> THEN <<>>
    ELSE insert_output(sort_outputs(SubSeq(outputs, 1, Len(outputs) - 1)),
                       outputs[Len(outputs)])

fill_missing_dates(outputs) ==
    IF outputs = <<>> THEN outputs
    ELSE sort_outputs(fill_workers(worker_outputs_keys(outputs), outputs))

\* parse_csv_file: one more day of a worker's file, with its entries, joins
\* all_records
FileRecord(worker_name, d) ==
    /\ fd_pc = "build"
    /\ Len(fd_records) < MaxRecords
    /\ fd_records' = Append(fd_records,
                            [worker_name |-> worker_name,
                             date |-> d,
                             day_type |-> day_type_of(d),
                             week_number |-> isocalendar_week(d),
                             total_hours |-> 8])
    /\ UNCHANGED <<fd_pc, fd_outputs, fd_filled, fd_refilled>>
    /\ UNCHANGED others_of_fd

\* preview_data (upload.py:139-162): the engine, then the date filler
PreviewFill ==
    /\ fd_pc = "build"
    /\ fd_records # <<>>
    /\ fd_pc' = "filled"
    /\ \E outputs \in {process_all_records(fd_records)} :
           /\ fd_outputs' = outputs
           /\ fd_filled' = fill_missing_dates(outputs)
    /\ UNCHANGED <<fd_records, fd_refilled>>
    /\ UNCHANGED others_of_fd

\* fill_missing_dates on a list it returned
FillAgain ==
    /\ fd_pc = "filled"
    /\ fd_pc' = "refilled"
    /\ fd_refilled' = fill_missing_dates(fd_filled)
    /\ UNCHANGED <<fd_records, fd_outputs, fd_filled>>
    /\ UNCHANGED others_of_fd

-----------------------------------------------------------------------------
(* The time splitters of app/services/time_calculator.py, called on one    *)
(* entry.  Each returns (minutes_to_hours(m1), minutes_to_hours(m2)) for   *)
(* two whole numbers of minutes; here a returned part is the number of     *)
(* minutes it was converted from, so entries need not be multiples of 12   *)
(* minutes.  Clock times are quarters of an hour.                          *)

NORM_START == 420

NORM_END == 1020

\* time_to_minutes of the clock times an entry can carry
ClockTimes == {15 * q : q \in 0..95}

\* the boundaries split_time_by_boundary is tried with
Boundaries == {OT_DAY_START, NORM_START, SUNDAY_NOON, NORM_END, OT_DAY_END}

SplitOps == {"norm", "day_night", "noon"}

TsStart ==
    /\ ts_pc = "idle"
    /\ ts_op = "none"
    /\ ts_start = 0
    /\ ts_end = 0
    /\ ts_boundary = 0
    /\ ts_result = <<0, 0>>
    /\ ts_raised = ""

\* <<norm_minutes, outside_minutes>> (time_calculator.py:46-62)
calculate_time_segments(start, end) ==
    IF end <= start THEN <<0, 0>>
    ELSE IF Min(end, NORM_END) > Max(start, NORM_START)
         THEN <<Min(end, NORM_END) - Max(start, NORM_START),
                (end - start) - (Min(end, NORM_END) - Max(start, NORM_START))>>
         ELSE <<0, end - start>>

split_minutes_from_midnight(start, end, boundary) ==
    IF end <= start THEN <<0, 0>>
    ELSE IF end <= boundary THEN <<end - start, 0>>
    ELSE IF start >= boundary THEN <<0, end - start>>
    ELSE <<boundary, end - boundary>>

\* <<before_minutes, after_minutes>> (time_calculator.py:142-159)
split_minutes_by_boundary(start, end, boundary) ==
    IF end <= start THEN <<0, 0>>
    ELSE IF end <= boundary THEN <<end - start, 0>>
    ELSE IF start >= boundary THEN <<0, end - start>>
    ELSE <<boundary - start, end - boundary>>

\* <<day_minutes, night_minutes>> (time_calculator.py:180-198)
day_night_split_minutes(start, end) ==
    IF end <= start THEN <<0, 0>>
    ELSE IF Min(end, OT_DAY_END) > Max(start, OT_DAY_START)
         THEN <<Min(end, OT_DAY_END) - Max(start, OT_DAY_START),
                (end - start) - (Min(end, OT_DAY_END) - Max(start, OT_DAY_START))>>
         ELSE <<0, end - start>>

\* calculate_sunday_noon_split (time_calculator.py:212)
sunday_noon_split_minutes(start, end) ==
    split_minutes_by_boundary(start, end, SUNDAY_NOON)

\* calculate_time_segments, calculate_overtime_day_night_split or
\* calculate_sunday_noon_split called on an entry; none has a raise statement
Split(op, start, end) ==
    /\ ts_pc = "idle"
    /\ ts_pc' = "done"
    /\ ts_op' = op
    /\ ts_start' = start
    /\ ts_end' = end
    /\ ts_boundary' = IF op = "noon" THEN SUNDAY_NOON ELSE 0
    /\ ts_result' = CASE op = "norm" -> calculate_time_segments(start, end)
                      [] op = "day_night" -> day_night_split_minutes(start, end)
                      [] OTHER -> sunday_noon_split_minutes(start, end)
    /\ ts_raised' = ""
    /\ UNCHANGED others_of_ts

\* split_time_by_boundary called with a boundary of its own
SplitByBoundary(start, end, boundary) ==
    /\ ts_pc = "idle"
    /\ ts_pc' = "done"
    /\ ts_op' = "boundary"
    /\ ts_start' = start
    /\ ts_end' = end
    /\ ts_boundary' = boundary
    /\ ts_result' = split_minutes_by_boundary(start, end, boundary)
    /\ ts_raised' = ""
    /\ UNCHANGED others_of_ts

-----------------------------------------------------------------------------
(* The processing pipeline of preview_data (upload.py:146-162), which       *)
(* mark_absence runs again on the cached records (upload.py:382-391):       *)
(* segments, call-out marking, absence marking, credit, the overtime        *)
(* engine and the date filler.  The records are the days of one worker in   *)
(* ISO week 23; a stage that mutates the records in place is an operator    *)
(* from the record list to the record list.  hours_in_norm and              *)
(* hours_outside_norm are in hundredths of an hour, credited_hours of a     *)
(* record in minutes, every other hour value a double of the engine.        *)

\* Bound of the model: the days of the week that have a record.
MaxWeekRecords == 4

\* the activity text of the entries of a parsed day
FileActivities == {<<"a", "r", "b", "e", "j", "d", "e">>, <<"f", "e", "r", "i", "e">>}

\* The days a file can hold: the entries of the day and their activity.  An
\* absence written into the activity column comes with the two-entry list.
FileDays(d) ==
    {x \in (EntryLists(day_type_of(d)) \ {<<>>}) \X FileActivities :
        x[2] = <<"f", "e", "r", "i", "e">> => day_type_of(d) = "Weekday" /\ Len(x[1]) = 2}

PlStart ==
    /\ pl_pc = "build"
    /\ pl_records = <<>>
    /\ pl_first = <<>>
    /\ pl_second = <<>>

\* csv_parser.py: the DailyRecord of a day with entries
parsed_record(d, entries, activity) ==
    [exists |-> TRUE,
     worker_name |-> "A",
     date |-> d,
     day_type |-> day_type_of(d),
     week_number |-> isocalendar_week(d),
     entries |-> entries,
     activity |-> [i \in DOMAIN entries |-> activity],
     total_hours |-> TotalOf(entries, Len(entries)),
     hours_in_norm |-> 0,
     hours_outside_norm |-> 0,
     has_call_out_qualifying_time |-> FALSE,
     absent_type |-> "NONE",
     credited_hours |-> 0,
     is_day_off |-> FALSE]

\* round(hours, 2) of a part of an entry, in hundredths of an hour
round_entry_part(part_minutes) == RoundHalfEven(100 * part_minutes, 60)

RECURSIVE sum_entry_parts(_, _, _)
\* total_norm (part 1) or total_outside (part 2) of calculate_daily_segments,
\* over entries[1..n]
sum_entry_parts(entries, n, part) ==
    IF n = 0 THEN 0
    ELSE sum_entry_parts(entries, n - 1, part)
         + round_entry_part(calculate_time_segments(entries[n][1], entries[n][2])[part])

\* time_calculator.py:85-106
calculate_daily_segments(record) ==
    [record EXCEPT
        !.hours_in_norm = sum_entry_parts(record.entries, Len(record.entries), 1),
        !.hours_outside_norm = sum_entry_parts(record.entries, Len(record.entries), 2)]

\* time_calculator.py:109-122
process_records_with_segments(records) ==
    [i \in DOMAIN records |-> calculate_daily_segments(records[i])]

\* call_out_detector.py:61-74
mark_call_out_eligibility(records) ==
    [i \in DOMAIN records |->
        [records[i] EXCEPT !.has_call_out_qualifying_time =
                               detect_call_out_eligibility(records[i].entries)]]

\* The four stages that mutate the records (upload.py:146-156, 382-385).
mutate_records(records) ==
    apply_credited_hours(mark_absence_types(
        mark_call_out_eligibility(process_records_with_segments(records))))

\* what categorize_day_overtime reads of a DailyRecord
engine_record(record) ==
    [day_type |-> record.day_type,
     entries |-> record.entries,
     total_hours |-> record.total_hours,
     credited_hours |-> minutes_to_hours(record.credited_hours),
     is_day_off |-> record.is_day_off]

\* the locals of calculate_weekly_overtime before its loop
week_start ==
    [weekly_total |-> fl_zero, weekly_norm_used |-> fl_zero,
     weekly_ot_hours_used |-> fl_zero, weekly_breakdown |-> OvertimeBreakdown,
     daily_outputs |-> <<>>]

\* one turn of the loop of calculate_weekly_overtime, r being what
\* categorize_day_overtime returned for the record (the legacy overtime_1..3
\* of an output are a function of its overtime_breakdown and are left out)
week_turn(acc, record, r) ==
    [weekly_total |-> fl_add(acc.weekly_total, record.total_hours),
     weekly_norm_used |-> fl_add(acc.weekly_norm_used, r.norm),
     weekly_ot_hours_used |-> fl_add(acc.weekly_ot_hours_used, r.ot),
     weekly_breakdown |-> merge_overtime_breakdowns(acc.weekly_breakdown, r.bd),
     daily_outputs |->
         Append(acc.daily_outputs,
                [worker |-> record.worker_name,
                 date |-> strftime(record.date),
                 day_type |-> record.day_type,
                 total_hours |-> round2(record.total_hours),
                 hours_norm_time |-> record.hours_in_norm,
                 hours_outside_norm |-> record.hours_outside_norm,
                 week_number |-> record.week_number,
                 weekly_total |-> round2(fl_add(acc.weekly_total, record.total_hours)),
                 normal_hours |-> round2(r.norm),
                 overtime_breakdown |-> r.bd,
                 has_call_out_qualifying_time |->
                     detect_call_out_eligibility(record.entries),
                 call_out_payment |-> 0,
                 call_out_applied |-> FALSE,
                 entries |-> record.entries])]

\* categorize_day_overtime called with the running totals, then the turn
week_loop_turn(acc, record) ==
    week_turn(acc, record,
              categorize_day_overtime(engine_record(record), acc.weekly_norm_used,
                                      acc.weekly_ot_hours_used))

RECURSIVE week_loop(_, _)
\* the loop of calculate_weekly_overtime over records[1..n]
week_loop(records, n) ==
    IF n = 0 THEN week_start
    ELSE \* the turn on records[n], after the turns before it
         week_loop_turn(week_loop(records, n - 1), records[n])

\* calculate_weekly_overtime: the summary and the outputs of one week
weekly_result(acc) ==
    [summaries |-> <<[worker_name |-> "A",
                      total_hours |-> round2(acc.weekly_total),
                      normal_hours |-> round2(acc.weekly_norm_used),
                      overtime_breakdown |-> acc.weekly_breakdown]>>,
     outputs |-> acc.daily_outputs]

calculate_weekly_overtime(records) == weekly_result(week_loop(records, Len(records)))

\* the summaries and the filled outputs (upload.py:158-162, 387-391); the
\* records are those of one worker and one week, which group_records_by_week
\* sorts by date
pipeline_result(week) ==
    [summaries |-> week.summaries, outputs |-> fill_missing_dates(week.outputs)]

run_pipeline(records) ==
    pipeline_result(calculate_weekly_overtime(group_records_by_week(records)))

\* parse_csv_file: the next day of the file joins all_records
ParseDay(d, entries, activity) ==
    /\ pl_pc = "build"
    /\ Len(pl_records) < MaxWeekRecords
    /\ pl_records # <<>> => d > pl_records[Len(pl_records)].date
    /\ pl_records' = Append(pl_records, parsed_record(d, entries, activity))
    /\ UNCHANGED <<pl_pc, pl_first, pl_second>>
    /\ UNCHANGED others_of_pl

\* The pipeline on the parsed records (upload.py:146-162).
RunPipeline ==
    /\ pl_pc = "build"
    /\ pl_records # <<>>
    /\ pl_pc' = "ran"
    /\ \E records \in {mutate_records(pl_records)} :
           /\ pl_records' = records
           /\ pl_first' = run_pipeline(records)
    /\ UNCHANGED pl_second
    /\ UNCHANGED others_of_pl

\* The pipeline again, on the records the first run left (upload.py:382-391).
RunPipelineAgain ==
    /\ pl_pc = "ran"
    /\ pl_pc' = "reran"
    /\ \E records \in {mutate_records(pl_records)} :
           /\ pl_records' = records
           /\ pl_second' = run_pipeline(records)
    /\ UNCHANGED pl_first
    /\ UNCHANGED others_of_pl

-----------------------------------------------------------------------------
(* process_all_records (overtime_calculator.py:468-497) on the records of   *)
(* one worker around the turn of the year.  Date t is the t-th day from     *)
(* Monday 29 December 2025: 1..3 are 29-31 December 2025, 4..7 are 1-4      *)
(* January 2026 (all seven in ISO week 1 of 2026), 8.. are 5 January 2026   *)
(* and after (ISO week 2).                                                  *)

\* Bounds of the model: the records of the worker and the last date.
MaxTurnRecords == 3

MaxTurnDate == 9

WkStart ==
    /\ wk_pc = "build"
    /\ wk_records = <<>>
    /\ wk_summaries = <<>>

\* record.date.year
year_of(t) == IF t <= 3 THEN 2025 ELSE 2026

\* date.isocalendar()[1], the week_number the parser gives the record
turn_week_number(t) == 1 + (t - 1) \div 7

\* the day type of the date's day header
turn_day_type(t) ==
    IF t % 7 = 6 THEN "Saturday" ELSE IF t % 7 = 0 THEN "Sunday" ELSE "Weekday"

\* csv_parser.py: the DailyRecord of a day with entries
turn_record(t, entries) ==
    [exists |-> TRUE,
     worker_name |-> "A",
     date |-> t,
     day_type |-> turn_day_type(t),
     week_number |-> turn_week_number(t),
     entries |-> entries,
     activity |-> <<>>,
     total_hours |-> TotalOf(entries, Len(entries)),
     hours_in_norm |-> 0,
     hours_outside_norm |-> 0,
     has_call_out_qualifying_time |-> FALSE,
     absent_type |-> "NONE",
     credited_hours |-> 0,
     is_day_off |-> FALSE]

\* key = (record.worker_name, year, week), overtime_calculator.py:355-358
week_key(record) == <<record.worker_name, year_of(record.date), record.week_number>>

\* the keys of grouped
grouped_keys(records) == {week_key(records[i]) : i \in 1..Len(records)}

\* the order of the key tuples (one worker name)
key_le(a, b) == a[2] < b[2] \/ (a[2] = b[2] /\ a[3] <= b[3])

RECURSIVE sorted_keys(_)
\* sorted(grouped.keys())
sorted_keys(keys) ==
    IF keys = {} THEN <<>>
    ELSE <<CHOOSE k \in keys : \A other \in keys : key_le(k, other)>>
             \o sorted_keys(keys \ {CHOOSE k \in keys : \A other \in keys : key_le(k, other)})

RECURSIVE grouped(_, _)
\* grouped[key]: the records of the key.  They are appended in the order of
\* the list, which is the order of their dates, so the sort by date moves
\* nothing.
grouped(records, key) ==
    IF records = <<>> THEN <<>>
    ELSE IF week_key(Head(records)) = key
         THEN <<Head(records)>> \o grouped(Tail(records), key)
         ELSE grouped(Tail(records), key)

\* the WeeklySummary of the records of one key (overtime_calculator.py:449-463)
summary_of_group(key, week) ==
    [worker_name |-> key[1], year |-> key[2], week_number |-> key[3],
     total_hours |-> week.summaries[1].total_hours,
     normal_hours |-> week.summaries[1].normal_hours,
     overtime_breakdown |-> week.summaries[1].overtime_breakdown]

\* all_summaries of process_all_records (overtime_calculator.py:482-497)
all_summaries(records, keys) ==
    [n \in 1..Len(keys) |->
        summary_of_group(keys[n], calculate_weekly_overtime(grouped(records, keys[n])))]

\* parse_csv_content: the next day of the file
ParseTurnDay(t, entries) ==
    /\ wk_pc = "build"
    /\ Len(wk_records) < MaxTurnRecords
    /\ wk_records # <<>> => t > wk_records[Len(wk_records)].date
    /\ wk_records' = Append(wk_records, turn_record(t, entries))
    /\ UNCHANGED <<wk_pc, wk_summaries>>
    /\ UNCHANGED others_of_wk

\* process_all_records
ProcessAllRecords ==
    /\ wk_pc = "build"
    /\ wk_records # <<>>
    /\ wk_pc' = "done"
    /\ wk_summaries' = all_summaries(wk_records, sorted_keys(grouped_keys(wk_records)))
    /\ UNCHANGED wk_records
    /\ UNCHANGED others_of_wk

-----------------------------------------------------------------------------
(* The page-fetch loop of fetch_from_external_api (api_fetch.py:110-156).   *)
(* The upstream answers every request with a status, a page of at most      *)
(* page_size results and a totalCount of its choice.                        *)

\* page_size (api_fetch.py:118)
page_size == 100

\* Bound of the model: the largest totalCount the upstream reports.
MaxTotalCount == 400

\* the totalCount values of the upstream; 0 is also the value of a response
\* without the field
TotalCounts ==
    {0, 1, page_size, page_size + 1, 2 * page_size, 3 * page_size, MaxTotalCount}

\* the lengths of the pages of the upstream; 0 is also the length of a
\* response without results
PageLengths == {0, 1, page_size \div 2, page_size - 1, page_size}

PfStart ==
    /\ pf_pc = "idle"
    /\ pf_page_number = 1
    /\ pf_total_count = 0
    /\ pf_time_registrations = <<>>
    /\ pf_requests = <<>>
    /\ pf_pages = <<>>

\* api_data.get('results', []) of the response to the request of a page
page_results_of(page_number, length) == [i \in 1..length |-> <<page_number, i>>]

\* the mutant of next_page_number: the same page again
next_page_number_same(page_number) == page_number

\* page_number += 1
next_page_number(page_number) == page_number + 1

\* the condition of the break (api_fetch.py:152)
got_all(time_registrations, total_count, page_results) ==
    Len(time_registrations) >= total_count \/ Len(page_results) < page_size

\* the endpoint up to the loop: the token, the dates, TIME_API_URL
StartFetch(configured) ==
    /\ pf_pc = "idle"
    /\ pf_pc' = IF configured THEN "loop" ELSE "failed"
    /\ pf_page_number' = 1
    /\ pf_total_count' = 0
    /\ pf_time_registrations' = <<>>
    /\ UNCHANGED <<pf_requests, pf_pages>>
    /\ UNCHANGED others_of_pf

\* one turn of the while loop: the request of page_number and its response
FetchPage(status, length, total) ==
    /\ pf_pc = "loop"
    /\ pf_requests' = Append(pf_requests, pf_page_number)
    /\ IF status # 200
       THEN /\ pf_pc' = "failed"
            /\ UNCHANGED <<pf_page_number, pf_total_count, pf_time_registrations, pf_pages>>
       ELSE /\ pf_pages' = Append(pf_pages, page_results_of(pf_page_number, length))
            /\ pf_total_count' = total
            /\ pf_time_registrations' =
                   pf_time_registrations \o page_results_of(pf_page_number, length)
            /\ IF got_all(pf_time_registrations \o page_results_of(pf_page_number, length),
                          total, page_results_of(pf_page_number, length))
               THEN /\ pf_pc' = "done"
                    /\ UNCHANGED pf_page_number
               ELSE /\ pf_pc' = "loop"
                    /\ pf_page_number' = next_page_number(pf_page_number)
    /\ UNCHANGED others_of_pf

-----------------------------------------------------------------------------
(* The session ids returned by preview_data (upload.py:107-216) and         *)
(* fetch_from_external_api (api_fetch.py:164-233), and the first reads of   *)
(* mark_absence, export_from_preview and sync_to_danlon on a session_id.    *)
(* An entry of the cache is the set of its keys and its timestamp; time is  *)
(* the clock of the preview cache, in whole hours.                          *)

\* the keys of the entry preview_data stores (upload.py:186-192)
preview_entry_keys ==
    {"records", "outputs", "summaries", "call_out_eligible_days", "timestamp"}

\* the keys of the entry fetch_from_external_api stores (api_fetch.py:216-221)
api_entry_keys == {"outputs", "summaries", "call_out_eligible_days", "timestamp"}

\* no entry under the key
NoCached == [keys |-> {}, timestamp |-> NoEntry]

NoResult == [session_id |-> 0, call |-> "", outcome |-> ""]

SeStart ==
    /\ se_cache = [sid \in SessionIds |-> NoCached]
    /\ se_returned = [sid \in SessionIds |-> NoEntry]
    /\ se_result = NoResult

\* upload.py:194-201: the cache without the entries the sweep deletes
swept(cache, current_time) ==
    [key \in SessionIds |->
        IF cache[key] # NoCached /\ timedelta_seconds(current_time, cache[key].timestamp) > 1
        THEN NoCached ELSE cache[key]]

\* POST /preview with records: uuid4 gives an id not used before
PreviewSession(session_id) ==
    /\ se_returned[session_id] = NoEntry
    /\ se_cache' = swept([se_cache EXCEPT ![session_id] =
                             [keys |-> preview_entry_keys, timestamp |-> clock]], clock)
    /\ se_returned' = [se_returned EXCEPT ![session_id] = clock]
    /\ UNCHANGED <<se_result, clock>>
    /\ UNCHANGED others_of_se

\* POST /fetch-from-api: without registrations the session_id is returned
\* and nothing is cached (api_fetch.py:164-175); with registrations the entry
\* is stored under it (api_fetch.py:215-221)
ApiFetchSession(session_id, registrations) ==
    /\ se_returned[session_id] = NoEntry
    /\ se_cache' = IF registrations = 0 THEN se_cache
                   ELSE [se_cache EXCEPT ![session_id] =
                            [keys |-> api_entry_keys, timestamp |-> clock]]
    /\ se_returned' = [se_returned EXCEPT ![session_id] = clock]
    /\ UNCHANGED <<se_result, clock>>
    /\ UNCHANGED others_of_se

\* the subscripts a call reads from the entry before anything else:
\* mark_absence cached["records"] (upload.py:302), export_from_preview
\* cached["outputs"] and cached["summaries"] (upload.py:238-239; records is
\* read with get), sync_to_danlon cached_data['outputs'] (danlon_oauth.py)
keys_read(call) ==
    IF call = "mark_absence" THEN {"records"}
    ELSE IF call = "export" THEN {"outputs", "summaries"}
    ELSE {"outputs"}

\* the outcome of the first lines of a call on a session_id
outcome_of(cache, session_id, call) ==
    IF cache[session_id] = NoCached THEN "404"
    ELSE IF ~(keys_read(call) \subseteq cache[session_id].keys) THEN "KeyError"
    ELSE "read"

\* a mark-absence, export or sync call on a session_id
CallOnSession(session_id, call) ==
    /\ se_result' = [session_id |-> session_id, call |-> call,
                     outcome |-> outcome_of(se_cache, session_id, call)]
    /\ UNCHANGED <<se_cache, se_returned, clock>>
    /\ UNCHANGED others_of_se

-----------------------------------------------------------------------------
(* export_from_preview (upload.py:217-276) with apply_call_out_payment      *)
(* (call_out_detector.py:81-132) on one cached session.  A date is the      *)
(* number of its day; the session has one output per date.                  *)

\* Bound of the model: the dates of the session.
MaxExportDays == 3

ExportDates == 1..MaxExportDays

CALL_OUT_PAYMENT_AMOUNT == 750

\* cached.get("records", None) of an entry without records
NoRecords == {0}

ExStart ==
    /\ ex_pc = "none"
    /\ ex_outputs = <<>>
    /\ ex_records = NoRecords
    /\ ex_selections = [d \in ExportDates |-> FALSE]
    /\ ex_status = 0

\* the DailyOutput of a date as calculate_weekly_overtime and
\* fill_missing_dates build it (overtime_calculator.py:431-433)
new_output(d, qualifying) ==
    [date |-> d, has_call_out_qualifying_time |-> qualifying,
     call_out_payment |-> 0, call_out_applied |-> FALSE]

\* records_by_date (call_out_detector.py:103-108)
records_by_date(records) == IF records = NoRecords THEN {} ELSE records

\* the names overtime_calculator.py defines at module level; the import of
\* any other name from it raises ImportError
overtime_calculator_names ==
    {"apply_credited_hours", "get_overtime_rates", "categorize_entry_overtime",
     "apply_hourly_thresholds", "categorize_day_overtime", "merge_overtime_breakdowns",
     "calculate_legacy_overtime_values", "group_records_by_week",
     "calculate_weekly_overtime", "process_all_records", "recalculate_weekly_summaries"}

\* from app.services.overtime_calculator import recalculate_overtime_with_callout
import_raises == "recalculate_overtime_with_callout" \notin overtime_calculator_names

\* one turn of the loop over outputs (call_out_detector.py:110-130): the
\* output after the turn and whether the turn raised
payment_turn(output, selected, by_date) ==
    IF selected /\ output.has_call_out_qualifying_time
    THEN [output |-> [output EXCEPT !.call_out_payment = CALL_OUT_PAYMENT_AMOUNT,
                                    !.call_out_applied = TRUE],
          raised |-> output.date \in by_date /\ import_raises]
    ELSE [output |-> [output EXCEPT !.call_out_payment = 0, !.call_out_applied = FALSE],
          raised |-> FALSE]

RECURSIVE payment_loop(_, _, _, _)
\* the loop from output i on: the outputs stay as they are after a raise
payment_loop(outputs, selections, by_date, i) ==
    IF i > Len(outputs) THEN [outputs |-> outputs, raised |-> FALSE]
    ELSE IF payment_turn(outputs[i], selections[outputs[i].date], by_date).raised
         THEN [outputs |-> [outputs EXCEPT ![i] =
                              payment_turn(outputs[i], selections[outputs[i].date], by_date).output],
               raised |-> TRUE]
         ELSE payment_loop([outputs EXCEPT ![i] =
                              payment_turn(outputs[i], selections[outputs[i].date], by_date).output],
                           selections, by_date, i + 1)

\* apply_call_out_payment(outputs, call_out_selections, records); a date
\* that is no key of the selections counts as not selected
apply_call_out_payment(outputs, selections, records) ==
    payment_loop(outputs, selections, records_by_date(records), 1)

\* a preview caches the session: preview_data stores the records of the days
\* with entries, fetch_from_external_api stores none.  A day qualifies only
\* when it has entries.
CacheSession(with_records, days, qualifying) ==
    /\ ex_pc = "none"
    /\ qualifying \subseteq days
    /\ days # {}
    /\ ex_pc' = "cached"
    /\ ex_outputs' = [d \in ExportDates |-> new_output(d, d \in qualifying)]
    /\ ex_records' = IF with_records THEN days ELSE NoRecords
    /\ UNCHANGED <<ex_selections, ex_status>>
    /\ UNCHANGED others_of_ex

\* POST /export/{session_id}: the outputs are the objects of the cache, so
\* what the loop has set stays set when it raises; the exception is not
\* caught and the answer is 500
Export(selections, result) ==
    /\ ex_pc \in {"cached", "exported"}
    /\ ex_pc' = "exported"
    /\ ex_selections' = selections
    /\ ex_outputs' = result.outputs
    /\ ex_status' = IF result.raised THEN 500 ELSE 200
    /\ UNCHANGED ex_records
    /\ UNCHANGED others_of_ex

-----------------------------------------------------------------------------
(* DanlonAuthService.get_valid_access_token (danlon_auth.py:187-226) with   *)
(* the token file of FileTokenStore and the handlers of routers/danlon.py   *)
(* that write it: success (save_tokens), disconnect and revoke              *)
(* (delete_tokens).  Time is in units of five minutes; tokens are numbered  *)
(* in the order the OAuth2 server issues them.                              *)

\* Bounds of the model: the tokens issued, the calls of
\* get_valid_access_token that return, and the time that passes.
MaxAuthIssued == 3

MaxAuthCalls == 3

MaxAuthClock == 4

\* the file does not exist
NoStored == 0

\* _cached_token_expires_at is None
NoExpiry == -1

\* timedelta(minutes=5) (danlon_auth.py:200)
RefreshMargin == 1

\* the expires_in values of the OAuth2 server
LegacyExpiresIn == {1, 3}

LaStart ==
    /\ la_stored = NoStored
    /\ la_cached_access_token = 0
    /\ la_cached_token_expires_at = NoExpiry
    /\ la_now = 0
    /\ la_issued = 0
    /\ la_disconnected = FALSE
    /\ la_returned = [calls |-> 0, access_token |-> 0]

\* danlon_auth.py:198-200: the cached token is handed out
cache_is_valid(cached_access_token, cached_token_expires_at, current_time) ==
    /\ cached_access_token # 0
    /\ cached_token_expires_at # NoExpiry
    /\ current_time < cached_token_expires_at - RefreshMargin

\* the success callback of a connection: the code is exchanged and
\* save_tokens writes the file (routers/danlon.py:128-150)
LegacyConnect ==
    /\ la_issued < MaxAuthIssued
    /\ la_issued' = la_issued + 1
    /\ la_stored' = la_issued + 1
    /\ la_disconnected' = FALSE
    /\ UNCHANGED <<la_cached_access_token, la_cached_token_expires_at, la_now, la_returned>>
    /\ UNCHANGED others_of_la

\* get_valid_access_token served from the cache (danlon_auth.py:198-201)
GetCachedAccessToken ==
    /\ la_returned.calls < MaxAuthCalls
    /\ cache_is_valid(la_cached_access_token, la_cached_token_expires_at, la_now)
    /\ la_returned' = [calls |-> la_returned.calls + 1,
                       access_token |-> la_cached_access_token]
    /\ UNCHANGED <<la_stored, la_cached_access_token, la_cached_token_expires_at,
                   la_now, la_issued, la_disconnected>>
    /\ UNCHANGED others_of_la

\* get_valid_access_token past the cache (danlon_auth.py:203-226): without a
\* stored refresh token it raises; a failed refresh raises; otherwise the
\* cache is filled and, when the refresh token was rotated, the file is
\* written
RefreshAccessToken(ok, rotated, expires_in) ==
    /\ ~cache_is_valid(la_cached_access_token, la_cached_token_expires_at, la_now)
    /\ la_issued < MaxAuthIssued
    /\ la_returned.calls < MaxAuthCalls
    /\ IF la_stored = NoStored \/ ~ok
       THEN UNCHANGED <<la_stored, la_cached_access_token, la_cached_token_expires_at,
                        la_issued, la_returned>>
       ELSE /\ la_issued' = la_issued + 1
            /\ la_cached_access_token' = la_issued + 1
            /\ la_cached_token_expires_at' = la_now + expires_in
            /\ la_stored' = IF rotated THEN la_issued + 1 ELSE la_stored
            /\ la_returned' = [calls |-> la_returned.calls + 1,
                               access_token |-> la_issued + 1]
    /\ UNCHANGED <<la_now, la_disconnected>>
    /\ UNCHANGED others_of_la

\* GET /disconnect: delete_tokens removes the file (routers/danlon.py:166-188)
LegacyDisconnect ==
    /\ la_stored' = NoStored
    /\ la_disconnected' = TRUE
    /\ UNCHANGED <<la_cached_access_token, la_cached_token_expires_at, la_now,
                   la_issued, la_returned>>
    /\ UNCHANGED others_of_la

\* POST /revoke: 400 without stored tokens; else the file is removed whether
\* the revocation succeeds or fails (routers/danlon.py:191-227)
LegacyRevoke ==
    /\ la_stored # NoStored
    /\ la_stored' = NoStored
    /\ la_disconnected' = TRUE
    /\ UNCHANGED <<la_cached_access_token, la_cached_token_expires_at, la_now,
                   la_issued, la_returned>>
    /\ UNCHANGED others_of_la

\* five minutes pass
LegacyTick ==
    /\ la_now < MaxAuthClock
    /\ la_now' = la_now + 1
    /\ UNCHANGED <<la_stored, la_cached_access_token, la_cached_token_expires_at,
                   la_issued, la_disconnected, la_returned>>
    /\ UNCHANGED others_of_la

-----------------------------------------------------------------------------
(* Specifications *)

Init == OTStart /\ TokStart /\ COStart /\ SyStart /\ AbStart /\ PcStart /\ PsStart /\ RdStart /\ FdStart /\ TsStart /\ PlStart /\ WkStart /\ PfStart /\ SeStart /\ ExStart /\ LaStart

NextOT ==
    \/ \E d \in 1..7 : \E record \in RecordsFor(d) : ProcessRecord(d, record)
    \/ EmitSummary

\* The overtime engine on one worker-week, the token broker idle.
InitOT == Init /\ idp.rotates

SpecOT == InitOT /\ [][NextOT]_vars

NextTok ==
    \/ \E h \in Handlers : StartGetValid(h)
    \/ \E h \in Handlers : StartComplete(h)
    \/ \E h \in Handlers : StartDisconnect(h)
    \/ \E h \in Handlers : GetValidRead(h)
    \/ \E h \in Handlers : RefreshAccepted(h)
    \/ \E h \in Handlers : RefreshRejected(h)
    \/ \E h \in Handlers : CompleteExchange(h)
    \/ \E h \in Handlers : StoreSelect(h)
    \/ \E h \in Handlers : StoreCommit(h)
    \/ \E h \in Handlers : DisconnectRead(h)
    \/ \E h \in Handlers : RevokeAccepted(h)
    \/ \E h \in Handlers : RevokeFailed(h)
    \/ \E h \in Handlers : DisconnectDelete(h)
    \/ \E h \in Handlers : Return(h)
    \/ Tick

\* The token broker under concurrent request handlers.
SpecTok == Init /\ [][NextTok]_vars

NextCO ==
    \/ \E e \in CallOutEntries : AddEntry(e)
    \/ DetectCallOut

\* The call-out detector on one day's record.
SpecCO == InitOT /\ [][NextCO]_vars

NextSync ==
    \/ \E session_id \in SyncSessionIds, company_id \in {"", "c1"}, has_connection \in BOOLEAN :
         SyncResolve(session_id, company_id, has_connection)
    \/ \E has_token \in BOOLEAN, fetched \in BOOLEAN : SyncLoad(has_token, fetched)
    \/ \E worker_name \in WorkerNames, hours \in RowHours : SyncRow(worker_name, hours)
    \/ \E has_token \in BOOLEAN, created \in BOOLEAN : SyncSubmit(has_token, created)

\* One run of sync_to_danlon.
SpecSync == InitOT /\ [][NextSync]_vars

NextAbs ==
    \/ /\ ab_result \in {"none", "not found"}
       /\ \E file \in [Dates -> Activities] : Preview(file)
    \/ \E selections \in [Dates -> Selections] : MarkAbsence(selections)
    \/ MarkAbsenceNoSession

\* One preview session and the mark-absence calls on it.
SpecAbs == InitOT /\ [][NextAbs]_vars

NextCache ==
    \/ \E session_id \in SessionIds : PreviewInsert(session_id)
    \/ \E session_id \in SessionIds : ApiFetchInsert(session_id)
    \/ \E hours \in {1, HoursPerDay} : ClockTick(hours)

\* The preview cache under inserts from both ingest paths.
SpecCache == InitOT /\ [][NextCache]_vars

NextPending ==
    \/ \E h \in FlowHandlers, op \in {"callback", "completion"} : StartFlowRequest(h, op)
    \/ \E h \in FlowHandlers, exchanged \in BOOLEAN : CallbackExchange(h, exchanged)
    \/ \E h \in FlowHandlers, exchanged \in BOOLEAN : CompletionExchange(h, exchanged)
    \/ \E h \in FlowHandlers, committed \in BOOLEAN : CompletionStore(h, committed)
    \/ \E h \in FlowHandlers : CompletionDelete(h)
    \/ \E user_id \in PendingUsers : PendingSession(user_id)
    \/ \E h \in FlowHandlers : FlowReturn(h)
    \/ PsTick

\* The requests of the OAuth flow that touch pending sessions.
SpecPending == InitOT /\ [][NextPending]_vars

NextRedirect ==
    \/ \E service \in Services, return_uri \in ReturnUris : Connect(service, return_uri)
    \/ \E consent \in BOOLEAN : ProviderRedirect(consent)
    \/ Callback

\* One connection flow, from the landing page to the code exchange.
SpecRedirect == InitOT /\ [][NextRedirect]_vars

NextFill ==
    \/ \E worker_name \in Workers, d \in 1..MaxDate : FileRecord(worker_name, d)
    \/ PreviewFill
    \/ FillAgain

\* One preview: the records of the uploaded files, the engine, the date filler.
SpecFill == InitOT /\ [][NextFill]_vars

NextSplit ==
    \/ /\ ts_pc = "idle"
       /\ \E op \in SplitOps, start \in ClockTimes, end \in ClockTimes :
              Split(op, start, end)
    \/ /\ ts_pc = "idle"
       /\ \E start \in ClockTimes, end \in ClockTimes, boundary \in Boundaries :
              SplitByBoundary(start, end, boundary)

\* One call of a time splitter on an entry.
SpecSplit == InitOT /\ [][NextSplit]_vars

NextPipeline ==
    \/ /\ pl_pc = "build"
       /\ \E d \in 1..7 : \E x \in FileDays(d) : ParseDay(d, x[1], x[2])
    \/ RunPipeline
    \/ RunPipelineAgain

\* The processing pipeline run twice on the records of one week.
SpecPipeline == InitOT /\ [][NextPipeline]_vars

NextWeeks ==
    \/ /\ wk_pc = "build"
       /\ \E t \in 1..MaxTurnDate :
            \E entries \in EntryLists(turn_day_type(t)) \ {<<>>} : ParseTurnDay(t, entries)
    \/ ProcessAllRecords

\* process_all_records on the records of one worker around new year.
SpecWeeks == InitOT /\ [][NextWeeks]_vars

NextFetch ==
    \/ \E configured \in BOOLEAN : StartFetch(configured)
    \/ /\ pf_pc = "loop"
       /\ \E status \in {200, 500} : \E length \in PageLengths : \E total \in TotalCounts :
            FetchPage(status, length, total)

\* The page-fetch loop; a request that was sent is answered or times out.
SpecFetch == InitOT /\ [][NextFetch]_vars /\ WF_vars(NextFetch)

NextSessions ==
    \/ \E session_id \in SessionIds : PreviewSession(session_id)
    \/ \E session_id \in SessionIds : \E registrations \in {0, 1} :
            ApiFetchSession(session_id, registrations)
    \/ \E session_id \in SessionIds : \E call \in {"mark_absence", "export", "sync"} :
            CallOnSession(session_id, call)
    \/ \E hours \in {1, HoursPerDay} : ClockTick(hours)

\* The preview endpoints and the calls on the session ids they return.
SpecSessions == InitOT /\ [][NextSessions]_vars

NextExport ==
    \/ /\ ex_pc = "none"
       /\ \E with_records \in BOOLEAN : \E days, qualifying \in SUBSET ExportDates :
            CacheSession(with_records, days, qualifying)
    \/ /\ ex_pc \in {"cached", "exported"}
       /\ \E selections \in [ExportDates -> BOOLEAN] :
            Export(selections, apply_call_out_payment(ex_outputs, selections, ex_records))

\* One cached session and the exports on it.
SpecExport == InitOT /\ [][NextExport]_vars

NextLegacyAuth ==
    \/ LegacyConnect
    \/ GetCachedAccessToken
    \/ \E ok, rotated \in BOOLEAN : \E expires_in \in LegacyExpiresIn :
            RefreshAccessToken(ok, rotated, expires_in)
    \/ LegacyDisconnect
    \/ LegacyRevoke
    \/ LegacyTick

\* The legacy auth service with connects, disconnects and token requests.
SpecLegacyAuth == InitOT /\ [][NextLegacyAuth]_vars

-----------------------------------------------------------------------------
(* Claims about the overtime engine, checked under SpecOT *)

\* the sum of the eleven buckets of a breakdown
\* The two-decimal value of an hour figure, in fifths of an hour: what the
\* figure is once the rounding error of the double is put aside.
Hours(x) == x[1]

SumBuckets(bd) ==
    Hours(bd.ot_weekday_hour_1_2) + Hours(bd.ot_weekday_hour_3_4)
    + Hours(bd.ot_weekday_hour_5_plus)
    + Hours(bd.ot_weekday_scheduled_day) + Hours(bd.ot_weekday_scheduled_night)
    + Hours(bd.ot_dayoff_day) + Hours(bd.ot_dayoff_night)
    + Hours(bd.ot_saturday_day) + Hours(bd.ot_saturday_night)
    + Hours(bd.ot_sunday_before_noon) + Hours(bd.ot_sunday_after_noon)

\* C1: every WeeklySummary has normal_hours <= 37 and total_hours equal to
\* normal_hours plus the sum of the eleven buckets of its overtime_breakdown.
C1_SummaryBalanced ==
    ot_pc = "done" =>
        /\ ~fl_lt(minutes_to_hours(WEEKLY_NORM_HOURS), summary.normal_hours)
        /\ Hours(summary.total_hours) =
               Hours(summary.normal_hours) + SumBuckets(summary.overtime_breakdown)

\* C2: the breakdown categorize_day_overtime emits for a record sums to
\* max(0, total_hours + credited_hours - norm allocated to the day), the norm
\* allocated being min(day_total, max(0, 37 - norm_used)).
C2_DayBreakdownSum ==
    day > 0 =>
        LET day_total == Hours(last.record.total_hours) + Hours(last.record.credited_hours)
            norm_allocated == Min(day_total,
                                  Max(0, Hours(minutes_to_hours(WEEKLY_NORM_HOURS))
                                         - Hours(last.norm_before)))
        IN SumBuckets(last.bd) = Max(0, day_total - norm_allocated)

\* C3: over the days of a worker-week the summed ot_weekday_hour_1_2 is at
\* most 2 hours and the summed ot_weekday_hour_3_4 is at most 2 hours.
C3_TiersBounded ==
    /\ ~fl_lt(minutes_to_hours(120), weekly_breakdown.ot_weekday_hour_1_2)
    /\ ~fl_lt(minutes_to_hours(120), weekly_breakdown.ot_weekday_hour_3_4)
    /\ ot_pc = "done" =>
          /\ ~fl_lt(minutes_to_hours(120), summary.overtime_breakdown.ot_weekday_hour_1_2)
          /\ ~fl_lt(minutes_to_hours(120), summary.overtime_breakdown.ot_weekday_hour_3_4)

\* C3 witness: a summary whose two lower tiers are full and were filled over
\* several days (the last day completed hour_3_4 and went on into
\* hour_5_plus), with more than 2 hours in hour_5_plus.
C3_Witness ==
    /\ ot_pc = "done"
    /\ summary.overtime_breakdown.ot_weekday_hour_1_2 = minutes_to_hours(120)
    /\ summary.overtime_breakdown.ot_weekday_hour_3_4 = minutes_to_hours(120)
    /\ fl_lt(minutes_to_hours(120), summary.overtime_breakdown.ot_weekday_hour_5_plus)
    /\ last.bd.ot_weekday_hour_1_2 = minutes_to_hours(0)
    /\ fl_lt(minutes_to_hours(0), last.bd.ot_weekday_hour_3_4)
    /\ fl_lt(last.bd.ot_weekday_hour_3_4, minutes_to_hours(120))
    /\ fl_lt(minutes_to_hours(0), last.bd.ot_weekday_hour_5_plus)

\* C4: in a worker-week the time-of-day view and the hourly-tier view of
\* weekday overtime carry the same total.
C4_ViewsAgree ==
    Hours(weekly_breakdown.ot_weekday_scheduled_day)
    + Hours(weekly_breakdown.ot_weekday_scheduled_night)
    = Hours(weekly_breakdown.ot_weekday_hour_1_2)
      + Hours(weekly_breakdown.ot_weekday_hour_3_4)
      + Hours(weekly_breakdown.ot_weekday_hour_5_plus)

C19_NoOvertimeWithinNorm ==
    (Hours(weekly_norm_used) + Hours(weekly_ot_hours_used)
        <= Hours(minutes_to_hours(WEEKLY_NORM_HOURS))) =>
        /\ SumBuckets(last.bd) = 0
        /\ SumBuckets(weekly_breakdown) = 0
        /\ ot_pc = "done" => SumBuckets(summary.overtime_breakdown) = 0

\* The week of scenario 4: five weekday records, four of them with 8 h
\* worked and one marked absent without entries (32 h worked, 39.4 h counted
\* with the credit of 7.4 h), the summary emitted.  No other week of five
\* weekday records has these two totals.
VacationWeek ==
    /\ ot_pc = "done"
    /\ day = 5
    /\ Hours(weekly_total) = Hours(minutes_to_hours(4 * 480))
    /\ Hours(weekly_norm_used) + Hours(weekly_ot_hours_used)
           = Hours(minutes_to_hours(4 * 480 + STANDARD_DAILY_HOURS))

\* C27 as stated: for four weekdays of 8 h and one weekday marked Vacation the
\* weekly summary has normal_hours = 37.00, hour_1_2 = 2.00, hour_3_4 = 2.00
\* and hour_5_plus = 0.40.
C27_VacationWeekAsStated ==
    VacationWeek =>
        /\ Hours(summary.normal_hours) = Hours(minutes_to_hours(WEEKLY_NORM_HOURS))
        /\ Hours(summary.overtime_breakdown.ot_weekday_hour_1_2) = Hours(minutes_to_hours(120))
        /\ Hours(summary.overtime_breakdown.ot_weekday_hour_3_4) = Hours(minutes_to_hours(120))
        /\ Hours(summary.overtime_breakdown.ot_weekday_hour_5_plus) = Hours(minutes_to_hours(24))

\* C27: for four weekdays of 8 h and one weekday marked Vacation (39.4 h
\* counted, 2.4 h above the norm) the weekly summary has normal_hours = 37.00,
\* hour_1_2 = 2.00, hour_3_4 = 0.40 and hour_5_plus = 0.00, to two decimals.
C27_VacationWeekTiers ==
    VacationWeek =>
        /\ Hours(summary.normal_hours) = Hours(minutes_to_hours(WEEKLY_NORM_HOURS))
        /\ Hours(summary.overtime_breakdown.ot_weekday_hour_1_2) = Hours(minutes_to_hours(120))
        /\ Hours(summary.overtime_breakdown.ot_weekday_hour_3_4) = Hours(minutes_to_hours(24))
        /\ Hours(summary.overtime_breakdown.ot_weekday_hour_5_plus) = 0

\* the week of scenario 4 with the Vacation day last, so that the overtime
\* is that of the credited day
C27_Witness ==
    /\ VacationWeek
    /\ last.record.entries = <<>>
    /\ last.record.is_day_off
    /\ Hours(last.ot) = Hours(minutes_to_hours(144))

\* a week whose only record is the Saturday entry 16:00-20:00, or the Sunday
\* entry 10:00-14:00, the summary emitted
WeekendOnlyWeek(day_type, entries) ==
    /\ ot_pc = "done"
    /\ last.record.day_type = day_type
    /\ last.record.entries = entries
    /\ ~last.record.is_day_off
    /\ weekly_total = last.record.total_hours
    /\ Hours(weekly_norm_used) + Hours(weekly_ot_hours_used) = Hours(weekly_total)

\* C28: weekend work is reported in the weekend buckets by time split: a week
\* whose work is a Saturday entry 16:00-20:00 yields ot_saturday_day = 2.00
\* and ot_saturday_night = 2.00; a Sunday entry 10:00-14:00 yields
\* ot_sunday_before_noon = 2.00 and ot_sunday_after_noon = 2.00 with all tier
\* buckets zero.
C28_WeekendBuckets ==
    /\ WeekendOnlyWeek("Saturday", <<(<<960, 1200>>)>>) =>
           /\ summary.overtime_breakdown.ot_saturday_day = minutes_to_hours(120)
           /\ summary.overtime_breakdown.ot_saturday_night = minutes_to_hours(120)
    /\ WeekendOnlyWeek("Sunday", <<(<<600, 840>>)>>) =>
           /\ summary.overtime_breakdown.ot_sunday_before_noon = minutes_to_hours(120)
           /\ summary.overtime_breakdown.ot_sunday_after_noon = minutes_to_hours(120)
           /\ summary.overtime_breakdown.ot_weekday_hour_1_2 = minutes_to_hours(0)
           /\ summary.overtime_breakdown.ot_weekday_hour_3_4 = minutes_to_hours(0)
           /\ summary.overtime_breakdown.ot_weekday_hour_5_plus = minutes_to_hours(0)

\* C37: within a worker-week the hourly tiers fill in order: the week's
\* ot_weekday_hour_3_4 is non-zero only if its ot_weekday_hour_1_2 totals
\* 2 hours, and its ot_weekday_hour_5_plus is non-zero only if its
\* ot_weekday_hour_3_4 totals 2 hours.
C37_TiersFillInOrder ==
    ot_pc = "done" =>
        /\ summary.overtime_breakdown.ot_weekday_hour_3_4 # fl_zero
               => Hours(summary.overtime_breakdown.ot_weekday_hour_1_2) = 10
        /\ summary.overtime_breakdown.ot_weekday_hour_5_plus # fl_zero
               => Hours(summary.overtime_breakdown.ot_weekday_hour_3_4) = 10

-----------------------------------------------------------------------------
(* Claims about the token broker, checked under SpecTok *)

GetValidDone(h) ==
    /\ hs[h].pc = "done"
    /\ hs[h].op = "get_valid_access_token"

\* C5: get_valid_access_token returns the stored access token without
\* contacting the IdP exactly when now + 60 s < expires_at; in every other
\* case with a stored row it has refreshed, stored the refreshed token and
\* returns the new access token, never the stored one.
C5_FreshOrRefreshed ==
    \A h \in Handlers :
        (GetValidDone(h) /\ hs[h].tokens # NoRow) =>
            IF hs[h].read_at + 1 < hs[h].tokens.expires_at
            THEN hs[h].result = hs[h].tokens.access /\ ~hs[h].contacted
            ELSE /\ hs[h].contacted
                 /\ hs[h].result # 0
                 /\ hs[h].result = hs[h].new_tokens.access
                 /\ hs[h].wrote.access = hs[h].result
                 /\ hs[h].result # hs[h].tokens.access

\* C6: whatever the interleaving of the token writes of one
\* (user_id, company_id), the table holds at most one row for the key.
C6_AtMostOneRow == Len(rows) <= 1

\* Both handlers have run get_valid_access_token on the same expired row and
\* have finished, at least one of them having stored its refresh.
BothRacedTheSameRow ==
    /\ \A h \in Handlers : GetValidDone(h) /\ hs[h].tokens # NoRow /\ hs[h].contacted
    /\ hs["h1"].tokens = hs["h2"].tokens
    /\ \E h \in Handlers : hs[h].cause = "stored"

\* C7: when two handlers race get_valid_access_token on the same expired row,
\* after both finish the stored row is the complete result of the last
\* writer's refresh: its access token and refresh token are the pair current
\* after that refresh, and the refresh token is not one the IdP has rotated
\* out.
C7_LastWriterWins ==
    BothRacedTheSameRow =>
        /\ writer \in Handlers
        /\ hs[writer].cause = "stored"
        /\ rows = <<hs[writer].wrote>>
        /\ rows[1].access = hs[writer].new_tokens.access
        /\ rows[1].refresh = IF hs[writer].new_tokens.refresh # 0
                             THEN hs[writer].new_tokens.refresh
                             ELSE hs[writer].tokens.refresh
        /\ rows[1].expires_at = hs[writer].expires_at
        /\ rows[1].refresh \notin idp.rotated

C7_Witness ==
    /\ BothRacedTheSameRow
    /\ \A h \in Handlers : hs[h].cause = "stored"
    /\ idp.rotates

\* C8: a disconnect request that has reached the upstream revoke call leaves
\* no local token row of the key when it returns, whether the revoke call
\* succeeded or failed.
C8_DisconnectDeletes ==
    [][\A h \in Handlers :
          (hs[h].op = "disconnect" /\ hs[h].pc \in {"revoke", "delete"}
             /\ hs'[h].pc = "done") => rows' = <<>>]_vars

\* C9: when the IdP rejects the refresh inside get_valid_access_token, the
\* stored rows of the key are left exactly as they were.
C9_RejectedRefreshKeepsRow ==
    [][\A h \in Handlers :
          (hs[h].pc = "refresh" /\ hs'[h].pc = "done"
             /\ hs'[h].cause = "refresh_failed") => rows' = rows]_vars

C9_Witness ==
    \E h \in Handlers :
        /\ GetValidDone(h)
        /\ hs[h].cause = "refresh_failed"
        /\ rows = <<hs[h].tokens>>

\* C10: the caller of get_valid_access_token can tell "no token row exists"
\* from "a row exists but the IdP rejected the refresh": the two outcomes
\* differ in what is returned.
C10_FailuresDistinct ==
    \A g, h \in Handlers :
        (GetValidDone(g) /\ hs[g].cause = "no_row"
           /\ GetValidDone(h) /\ hs[h].cause = "refresh_failed")
        => hs[g].result # hs[h].result

\* C33: the expires_at of the token row of a key never moves backwards when
\* a refresh (get_valid_access_token) writes the row, whether the refreshes
\* follow or race each other and whatever expires_in they were answered with.
C33_ExpiresAtAdvances ==
    [][\A h \in Handlers :
          (/\ hs[h].pc = "store_commit"
           /\ hs[h].op = "get_valid_access_token"
           /\ hs'[h].cause = "stored")
          => \A i \in 1..Len(rows) :
                 \A j \in 1..Len(rows') :
                     rows'[j].id = rows[i].id
                         => rows'[j].expires_at >= rows[i].expires_at]_vars

-----------------------------------------------------------------------------
(* Claims about the call-out detector, checked under SpecCO *)

\* Entry i of the day starts at or after 16:00 while an entry that starts
\* earlier ended at or after 15:30.
Continuation(entries, i) ==
    /\ entries[i][1] >= 960
    /\ \E j \in 1..Len(entries) :
           entries[j][1] < entries[i][1] /\ entries[j][2] >= 930

\* Entry i qualifies its day: it starts before 07:00, or at or after 15:30
\* without being a continuation.
Qualifies(entries, i) ==
    \/ entries[i][1] < 420
    \/ entries[i][1] >= 930 /\ ~Continuation(entries, i)

\* C14: detect_call_out_eligibility returns true for a day exactly when some
\* entry starts before 07:00, or starts at or after 15:30 and is not
\* suppressed by the continuation rule; a lone entry starting at 15:30
\* qualifies, a lone entry starting at 15:29 does not.
C14_CallOutExactly ==
    co_pc = "done" =>
        /\ co_eligible = (\E i \in 1..Len(co_entries) : Qualifies(co_entries, i))
        /\ (Len(co_entries) = 1 /\ co_entries[1][1] = 930) => co_eligible
        /\ (Len(co_entries) = 1 /\ co_entries[1][1] = 929) => ~co_eligible

C14_Witness ==
    /\ co_pc = "done"
    /\ Len(co_entries) = 1
    /\ co_entries[1][1] = 930
    /\ co_eligible

\* C15: a day all of whose entries are continuations (start at or after
\* 16:00 after an earlier-starting entry that ended at or after 15:30) or
\* start within 07:00-15:29 is not eligible, and a day with an entry that
\* starts before 07:00 is eligible whatever its other entries.
C15_ContinuationNeverQualifies ==
    co_pc = "done" =>
        /\ (\A i \in 1..Len(co_entries) :
               \/ Continuation(co_entries, i)
               \/ (co_entries[i][1] >= 420 /\ co_entries[i][1] < 930))
           => ~co_eligible
        /\ (\E i \in 1..Len(co_entries) : co_entries[i][1] < 420) => co_eligible

\* C15 witness: 07:00-15:30 followed by 16:00-17:00, the earlier entry ending
\* exactly at 15:30, found not eligible.
C15_Witness ==
    /\ co_pc = "done"
    /\ co_entries = <<(<<960, 1020>>), (<<420, 930>>)>>
    /\ ~co_eligible

-----------------------------------------------------------------------------
(* Claims about the sync to Danlon *)

\* the employee the three steps of the description give: a live employee
\* whose name is the worker's name up to case, else the explicit mapping row
\* of that name, else the fallback row; "" when none of them exists
DescribedEmployee(cfg, worker_name) ==
    LET named == {n \in 1..Len(cfg.employees) :
                    Lower(cfg.employees[n].name) = Lower(worker_name)}
        mapped == {n \in 1..Len(cfg.emp_mapping_rows) :
                     /\ ~cfg.emp_mapping_rows[n].is_fallback
                     /\ Lower(cfg.emp_mapping_rows[n].ftz_employee_name) = Lower(worker_name)}
        fallback == {n \in 1..Len(cfg.emp_mapping_rows) : cfg.emp_mapping_rows[n].is_fallback}
    IN IF named # {} THEN cfg.employees[CHOOSE n \in named : TRUE].id
       ELSE IF mapped # {} THEN cfg.emp_mapping_rows[CHOOSE n \in mapped : TRUE].danlon_employee_id
       ELSE IF fallback # {} THEN cfg.emp_mapping_rows[CHOOSE n \in fallback : TRUE].danlon_employee_id
       ELSE ""

\* C11: a row with data is given the employee of the live list whose name
\* matches the worker's name up to case, else the employee of the explicit
\* mapping row, else the fallback employee; a row that none of the three
\* resolves is skipped and its worker reported among unmatched_workers, and
\* with a fallback row in place unmatched_workers stays empty.
C11_ResolvedInThreeSteps ==
    /\ sy_last.relevant =>
         /\ sy_last.employee_id = DescribedEmployee(sy_cfg, sy_last.worker)
         /\ sy_last.employee_id = "" =>
              /\ sy_last.worker \in unmatched_workers
              /\ \E n \in 1..Len(skipped) : skipped[n] = sy_last.worker
    /\ sy_cfg.fallback_employee_id # "" => unmatched_workers = {}

\* the hours in the three weekday tiers of a breakdown, in minutes
TierMinutes(breakdown) ==
    breakdown.ot_weekday_hour_1_2 + breakdown.ot_weekday_hour_3_4
    + breakdown.ot_weekday_hour_5_plus

\* C12: in the mutation every pay-part has as units the integer nearest to
\* a hundred times its hours, and as amount the integer nearest to its
\* kroner.
C12_IntegerUnitsAndAmount ==
    sy_pc = "done" =>
        /\ Len(gql) = Len(payparts)
        /\ \A n \in 1..Len(gql) :
             /\ payparts[n].units >= 0 =>
                  gql[n].units = RoundHalfEven(100 * payparts[n].hours[1],
                                               payparts[n].hours[2])
             /\ payparts[n].units < 0 => gql[n].units = -1
             /\ payparts[n].amount >= 0 =>
                  gql[n].amount = RoundHalfEven(payparts[n].amount, 100)
             /\ payparts[n].amount < 0 => gql[n].amount = -1

\* a Saturday of 4 h 10 min went out as 417 units and a call-out as 750 kr
C12_Witness ==
    /\ sy_pc = "done"
    /\ \E n \in 1..Len(gql) : gql[n].code = "overtime" /\ gql[n].units = 417
    /\ \E n \in 1..Len(gql) : gql[n].code = "callout" /\ gql[n].amount = 750

\* C13: the overtime pay-part of a weekday row with tiered overtime carries
\* the hours of the tier view alone; the same hours in the scheduled
\* day/night view are not added to them.
C13_OvertimeCountedOnce ==
    (sy_last.relevant /\ sy_last.employee_id # ""
     /\ TierMinutes(sy_last.hours.overtime_breakdown) > 0) =>
        \E n \in 1..Len(payparts) :
            /\ payparts[n].code = "overtime"
            /\ payparts[n].employeeId = sy_last.employee_id
            /\ payparts[n].hours = <<TierMinutes(sy_last.hours.overtime_breakdown), 60>>

\* The requests of one kind among the operations of a call.
Requests(calls, request) == {n \in 1..Len(calls) : calls[n] = request}

NoMutation == Requests(sy_calls, "createPayParts") = {}

SessionUnknown == sy_session_id # "" /\ sy_session_id \notin DOMAIN sync_preview_cache

\* the handler stopped at the employee fetch of step 4
EmployeeFetchFailed == sy_pc = "failed" /\ sy_status = 502 /\ payparts = <<>>

\* the loop of step 5 ended with an empty payparts list
NothingBuilt == sy_pc = "done" /\ payparts = <<>>

\* C30: one sync call sends at most one createPayParts mutation; it sends
\* none when the session id is unknown, when the employee fetch fails or when
\* no pay-part was built; and a call with an unknown session id ends as 404
\* (SessionNotFound) with no token read and nothing sent upstream.
C30_AtMostOneMutation ==
    /\ [](Cardinality(Requests(sy_calls, "createPayParts")) <= 1)
    /\ [](SessionUnknown => [](sy_status = 404 /\ sy_calls = <<>>))
    /\ [](EmployeeFetchFailed => []NoMutation)
    /\ [](NothingBuilt => []NoMutation)

\* a call that got through all six steps and sent its mutation
C30_Witness ==
    /\ sy_pc = "done"
    /\ sy_calls = <<"tokens", "token", "companiesExt", "token", "createPayParts">>
    /\ Len(gql) = 2

-----------------------------------------------------------------------------
(* Claims about absence marking *)

\* C16: after every preview and every mark-absence call a record whose
\* absent_type is None has no credited hours, and the last mark-absence call
\* took effect: a selected date without entries carries the selected type,
\* so that Vacation followed by None leaves the date with no credit.
C16_CreditOnlyWhileAbsent ==
    \A d \in Dates :
        /\ (ab_records[d].exists /\ ab_records[d].absent_type = "NONE") =>
               ab_records[d].credited_hours = 0
        /\ (ab_sel[d] \in {"Vacation", "Sick"} /\ ab_records[d].activity = <<>>) =>
               /\ ab_records[d].exists
               /\ ab_records[d].absent_type = absent_type_map[ab_sel[d]]
               /\ ab_records[d].credited_hours = STANDARD_DAILY_HOURS
        /\ (ab_sel[d] = "None" /\ ab_records[d].activity = <<>> /\ ab_records[d].exists) =>
               /\ ab_records[d].absent_type = "NONE"
               /\ ab_records[d].credited_hours = 0

\* the category of a day as described: vacation keywords tried on every
\* entry, then sick keywords, then holiday keywords
DescribedAbsence(activities) ==
    IF \E n \in 1..Len(activities) :
           any_keyword_in(VACATION_KEYWORDS, lower(activities[n])) THEN "VACATION"
    ELSE IF \E n \in 1..Len(activities) :
           any_keyword_in(SICK_KEYWORDS, lower(activities[n])) THEN "SICK"
    ELSE IF \E n \in 1..Len(activities) :
           any_keyword_in(HOLIDAY_KEYWORDS, lower(activities[n])) THEN "PUBLIC_HOLIDAY"
    ELSE "NONE"

\* C32: mark_absence_types gives a day the first matching category in the
\* order Vacation, Sick, Holiday, wherever in the day's entries the matching
\* entry stands, and a second invocation changes no record.
C32_FirstCategoryWins ==
    ab_result = "previewed" =>
        /\ \A d \in Dates :
               ab_records[d].exists =>
                   ab_records[d].absent_type = DescribedAbsence(ab_records[d].activity)
        /\ mark_absence_types(ab_records) = ab_records

-----------------------------------------------------------------------------
(* Claims about the preview cache *)

\* the age of an entry: the whole difference of two times, in hours
timedelta_total_seconds(later, earlier) == later - earlier

\* C17: right after an insert into the preview cache, by the CSV preview or
\* by the API fetch, no entry of the cache is more than one hour old,
\* whatever its age.
C17_NoStaleEntryAfterInsert ==
    [][preview_cache' # preview_cache =>
          \A key \in SessionIds :
              preview_cache'[key] # NoEntry =>
                  timedelta_total_seconds(clock', preview_cache'[key]) <= 1]_vars

-----------------------------------------------------------------------------
(* Claims about pending sessions *)

-----------------------------------------------------------------------------
(* Claims about the redirect_uri of a connection flow *)

\* C21: in every flow, with or without a return_uri, the redirect_uri sent in
\* the authorization_code exchange is the very sequence of characters that
\* was placed as redirect_uri in the authorize URL which started the flow.
C21_RedirectUriByteEqual ==
    rd_pc = "exchanged" => rd_exchange_uri = rd_redirect_uri

-----------------------------------------------------------------------------
(* Claims about the date filler, checked under SpecFill *)

\* C22: fill_missing_dates is idempotent: applied to its own output it
\* returns the same outputs in the same order, whatever the input list
\* (several workers, gaps, weekends, several outputs of one date).
C22_FillIdempotent ==
    fd_pc = "refilled" => fd_refilled = fd_filled

\* the case: two workers, one of them with outputs on a Thursday and on the
\* Monday after, so that the first pass added the Friday and left the
\* weekend out
C22_Witness ==
    /\ fd_pc = "refilled"
    /\ \E i, j \in 1..Len(fd_outputs) : fd_outputs[i].worker # fd_outputs[j].worker
    /\ \E i, j \in 1..Len(fd_outputs) :
           /\ fd_outputs[i].worker = fd_outputs[j].worker
           /\ parse_date(fd_outputs[i].date) = 4
           /\ parse_date(fd_outputs[j].date) = 8
    /\ Len(fd_filled) = Len(fd_outputs) + 1

\* the dates on which the input holds an output of the worker
ObservedDates(worker) ==
    {parse_date(fd_outputs[i].date) :
        i \in {k \in 1..Len(fd_outputs) : fd_outputs[k].worker = worker}}

\* how often an output occurs in a list
Occurrences(outputs, output) ==
    Cardinality({i \in 1..Len(outputs) : outputs[i] = output})

OneOutputPerWeekday ==
    \A worker \in Workers :
        \A d \in 1..(MaxDate + 1) :
            (/\ ObservedDates(worker) # {}
             /\ min_date(ObservedDates(worker)) <= d
             /\ d <= (CHOOSE e \in ObservedDates(worker) :
                         \A f \in ObservedDates(worker) : e >= f)
             /\ weekday_of(d) < 5)
            => Cardinality({i \in 1..Len(fd_filled) :
                               /\ fd_filled[i].worker = worker
                               /\ parse_date(fd_filled[i].date) = d}) = 1

WeekendOnlyIfObserved ==
    \A i \in 1..Len(fd_filled) :
        weekday_of(parse_date(fd_filled[i].date)) >= 5
            => parse_date(fd_filled[i].date) \in ObservedDates(fd_filled[i].worker)

KeepsEveryInput ==
    \A i \in 1..Len(fd_outputs) :
        Occurrences(fd_filled, fd_outputs[i]) >= Occurrences(fd_outputs, fd_outputs[i])

SortedByWorkerAndDate ==
    \A i, j \in 1..Len(fd_filled) :
        i < j =>
            \/ worker_rank(fd_filled[i].worker) < worker_rank(fd_filled[j].worker)
            \/ /\ fd_filled[i].worker = fd_filled[j].worker
               /\ parse_date(fd_filled[i].date) <= parse_date(fd_filled[j].date)

\* C23: for each worker the filled list holds exactly one output for every
\* Monday-to-Friday date between the worker's first and last observed date,
\* holds a Saturday or Sunday only if the input had an output of the worker
\* on that date, keeps every output of the input, and is sorted by
\* (worker, date).
C23_FilledRangeComplete ==
    fd_pc # "build" =>
        /\ OneOutputPerWeekday
        /\ WeekendOnlyIfObserved
        /\ KeepsEveryInput
        /\ SortedByWorkerAndDate

\* the hours of the worker's week that the uploaded records hold up to and
\* including the date d
RECURSIVE HoursThrough(_, _, _, _)
HoursThrough(records, worker, week, d) ==
    IF records = <<>> THEN 0
    ELSE HoursThrough(Tail(records), worker, week, d)
         + (IF /\ Head(records).worker_name = worker
               /\ Head(records).week_number = week
               /\ Head(records).date <= d
            THEN Head(records).total_hours ELSE 0)

\* C29: every DailyOutput of the final list of a session, the days the date
\* filler added included, has weekly_total equal to the running sum of its
\* worker-week's hours through that day; so within a worker-week
\* weekly_total never decreases from one day to a later day.
C29_WeeklyTotalRunningSum ==
    fd_pc # "build" =>
        /\ \A i \in 1..Len(fd_filled) :
               fd_filled[i].weekly_total =
                   HoursThrough(fd_records, fd_filled[i].worker,
                                fd_filled[i].week_number, parse_date(fd_filled[i].date))
        /\ \A i, j \in 1..Len(fd_filled) :
               (/\ fd_filled[i].worker = fd_filled[j].worker
                /\ fd_filled[i].week_number = fd_filled[j].week_number
                /\ parse_date(fd_filled[i].date) < parse_date(fd_filled[j].date))
               => fd_filled[i].weekly_total <= fd_filled[j].weekly_total

-----------------------------------------------------------------------------
(* Claims about the time splitters, checked under SpecSplit *)

\* C24: for every entry with start < end and every boundary, the two parts
\* the splitter returns add up to end - start, in minutes; for the noon
\* split, the day/night split and the norm split.
C24_PartsAddUp ==
    (ts_pc = "done" /\ ts_start < ts_end) =>
        ts_result[1] + ts_result[2] = ts_end - ts_start

\* an entry across noon, split into a part before and a part after
C24_Witness ==
    /\ ts_pc = "done"
    /\ ts_op = "noon"
    /\ ts_start < SUNDAY_NOON
    /\ ts_end > SUNDAY_NOON
    /\ ts_start > 0
    /\ ts_result[1] = SUNDAY_NOON - ts_start
    /\ ts_result[2] = ts_end - SUNDAY_NOON

\* C25: every time-splitter operation fails with InvalidInterval when the
\* entry has end <= start; it returns no result for such an entry.
C25_InvalidIntervalRejected ==
    (ts_pc = "done" /\ ts_end <= ts_start) => ts_raised = "InvalidInterval"

-----------------------------------------------------------------------------
(* Claims about the processing pipeline, checked under SpecPipeline *)

\* C26: the pipeline run again on the records that its first run processed
\* and mutated in place gives the same daily outputs and the same weekly
\* summaries as the first run.
C26_RerunIdentical ==
    pl_pc = "reran" => pl_second = pl_first

\* a second run over a week with a credited vacation day, overtime in the
\* tiers, a call-out day and a date the filler added
C26_Witness ==
    /\ pl_pc = "reran"
    /\ \E i \in 1..Len(pl_records) :
           /\ pl_records[i].absent_type = "VACATION"
           /\ pl_records[i].credited_hours = STANDARD_DAILY_HOURS
    /\ \E i \in 1..Len(pl_records) : pl_records[i].has_call_out_qualifying_time
    /\ Hours(pl_second.summaries[1].overtime_breakdown.ot_weekday_hour_1_2) > 0
    /\ Len(pl_second.outputs) > Len(pl_records)

-----------------------------------------------------------------------------
(* Claims about the grouping by week, checked under SpecWeeks *)

\* the ISO weeks in which the worker has records
IsoWeeks == {wk_records[i].week_number : i \in 1..Len(wk_records)}

\* the summaries of one ISO week
SummariesOfWeek(week) ==
    {n \in 1..Len(wk_summaries) : wk_summaries[n].week_number = week}

RECURSIVE NormalHoursOf(_)
\* the normal hours of a set of summaries added up, in fifths of an hour
NormalHoursOf(ns) ==
    IF ns = {} THEN 0
    ELSE Hours(wk_summaries[CHOOSE n \in ns : TRUE].normal_hours)
         + NormalHoursOf(ns \ {CHOOSE n \in ns : TRUE})

\* C38: the records of one worker that fall in one ISO week are one group:
\* they yield one WeeklySummary and share one norm of 37 hours, also in the
\* ISO week that holds 31 December and 1 January.
C38_OneGroupPerIsoWeek ==
    wk_pc = "done" =>
        \A week \in IsoWeeks :
            /\ Cardinality(SummariesOfWeek(week)) = 1
            /\ NormalHoursOf(SummariesOfWeek(week)) <= 185

-----------------------------------------------------------------------------
(* Claims about the page-fetch loop, checked under SpecFetch *)

RECURSIVE Concatenation(_)
\* the pages of a list of pages, one after the other
Concatenation(pages) ==
    IF pages = <<>> THEN <<>> ELSE Head(pages) \o Concatenation(Tail(pages))

\* the loop has not stopped although the last response allowed it to
WentOn ==
    /\ pf_pc = "loop"
    /\ pf_pages # <<>>
    /\ \/ Len(pf_time_registrations) >= pf_total_count
       \/ Len(pf_pages[Len(pf_pages)]) < page_size

\* the loop has stopped on a response that did not allow it to
StoppedEarly ==
    /\ pf_pc = "done"
    /\ Len(pf_time_registrations) < pf_total_count
    /\ Len(pf_pages[Len(pf_pages)]) = page_size

\* C31: the loop ends; it goes on exactly while the records collected are
\* fewer than totalCount and the last page was full; the pages requested are
\* 1, 2, 3, ... in order; the records collected are the records of the
\* fetched pages, each page once.
C31_FetchLoopTerminates ==
    /\ (pf_pc = "loop") ~> (pf_pc \in {"done", "failed"})
    /\ [](~WentOn /\ ~StoppedEarly)
    /\ [](pf_requests = [i \in 1..Len(pf_requests) |-> i])
    /\ [](pf_time_registrations = Concatenation(pf_pages))
    /\ [](\A i, j \in 1..Len(pf_time_registrations) :
            pf_time_registrations[i] = pf_time_registrations[j] => i = j)

\* three full pages were fetched and the loop stopped with all their records
C31_Witness ==
    /\ pf_pc = "done"
    /\ Len(pf_requests) = 3
    /\ Len(pf_time_registrations) = 3 * page_size

-----------------------------------------------------------------------------
(* Claims about the returned session ids, checked under SpecSessions *)

\* C34: when an endpoint returns a session_id, the id is a key of the
\* preview cache and its entry has the keys records, outputs, summaries,
\* call_out_eligible_days and timestamp; a call on a session_id returned
\* within the last hour never fails for a missing entry, and no call fails
\* for a missing key.
C34_ReturnedSessionIsCached ==
    /\ [][\A sid \in SessionIds :
             (se_returned[sid] = NoEntry /\ se_returned'[sid] # NoEntry) =>
                 /\ se_cache'[sid] # NoCached
                 /\ preview_entry_keys \subseteq se_cache'[sid].keys]_vars
    /\ [](se_result.outcome # "KeyError")
    /\ [][(se_result' # se_result /\ se_result'.outcome = "404") =>
             \/ se_returned[se_result'.session_id] = NoEntry
             \/ clock - se_returned[se_result'.session_id] > 1]_vars

-----------------------------------------------------------------------------
(* Claims about the export with call-out selections, checked under SpecExport *)

\* C35: after an export the export has completed, every cached output has
\* call_out_applied exactly when its date is selected and the day has
\* call-out qualifying time, and call_out_payment is 750 when applied and 0
\* otherwise, whatever an earlier export had set.
C35_ExportSetsFlags ==
    ex_pc = "exported" =>
        /\ ex_status = 200
        /\ \A i \in 1..Len(ex_outputs) :
               /\ ex_outputs[i].call_out_applied
                      = (ex_selections[ex_outputs[i].date]
                             /\ ex_outputs[i].has_call_out_qualifying_time)
               /\ ex_outputs[i].call_out_payment
                      = IF ex_outputs[i].call_out_applied THEN CALL_OUT_PAYMENT_AMOUNT ELSE 0

-----------------------------------------------------------------------------
(* Claims about the legacy auth service, checked under SpecLegacyAuth *)

\* C36: once revoke or disconnect has deleted the stored tokens and until a
\* new connection is stored, no call of get_valid_access_token returns an
\* access token, a token cached before the disconnect included.
C36_NoTokenAfterDisconnect ==
    [][la_returned'.calls # la_returned.calls => ~la_disconnected]_vars

====
